---- MODULE Spec2Model ----
(***************************************************************************)
(* Session protocol of machine_common_sense.Controller                     *)
(* (src/machine_common_sense/controller.py): start_scene, step,            *)
(* make_step_prediction and end_scene, with the calls they make on the     *)
(* engine (self._controller.step) and on the history writer                *)
(* (self.__history_writer.add_step / write_history_file).  Specification   *)
(* Spec is the session of Controller; SpecAI2THOR is the session of the    *)
(* older ControllerAI2THOR                                                 *)
(* (src/python_api/machine_common_sense/controller_ai2thor.py), which      *)
(* keeps its history in a list and writes it line by line.                 *)
(*                                                                         *)
(* Python's None is modelled as the empty tuple and a present value x as   *)
(* the one-element tuple <<x>>.  Python lists are sequences.               *)
(***************************************************************************)
EXTENDS Integers, Sequences, FiniteSets, TLC

VARIABLES
    config,            \* self._metadata_tier, self.__depth_masks, self.__object_masks
    goal,              \* self._goal
    step_number,       \* self.__step_number
    habituation_trial, \* self.__habituation_trial
    history_item,      \* self.__history_item
    history_writer,    \* self.__history_writer
    scene_configuration, \* self.__scene_configuration
    calls,             \* the calls made on the engine and on the history
                       \* writer, in the order they were made
    engine_frames,     \* how many frames the engine returns per call
    scene_count,       \* number of start_scene calls made so far
    call,              \* the last API call and its arguments
    output,            \* what that call returned (or that it raised)
    ncalls,            \* number of API calls made so far
    history_list,      \* ControllerAI2THOR: self.__history_list
    random_state       \* the state of the generator of the random module,
                       \* in each of two processes

vars == <<config, goal, step_number, habituation_trial, history_item, history_writer,
          scene_configuration, calls, engine_frames, scene_count, call, output, ncalls,
          history_list, random_state>>

\* The two processes a controller is created in
Runs == {1, 2}

\* The generator in the sessions that draw no value from it
NotDrawnFrom == [r \in Runs |-> 0]

----------------------------------------------------------------------------
(* Bounds of the exploration *)

MaxCalls == 4
MaxFrames == 2
MaxPreview == 2
MaxLastStep == 2

----------------------------------------------------------------------------
(* Optional values *)

None == <<>>
Some(x) == <<x>>
IsNone(o) == o = <<>>
Val(o) == o[1]

InList(x, l) == \E i \in 1..Len(l) : l[i] = x

----------------------------------------------------------------------------
(* Action names *)

ACTION_LIST ==
    <<"CloseObject", "DropObject", "EndHabituation", "MoveAhead", "MoveBack",
      "MoveLeft", "MoveRight", "OpenObject", "Pass", "PickupObject",
      "PullObject", "PushObject", "ThrowObject">>

\* Action names a caller passes to step(); "Teleport" is no member of Action
StepInputs == {"Pass", "MoveAhead", "EndHabituation", "Teleport"}

----------------------------------------------------------------------------
(* Goal *)

\* A goal's metadata is a dict from keys to dicts: a function from the keys
\* that are present; {} is the function of no key
NoMetadata == <<>>

\* GoalMetadata(): the goal held before the first start_scene
DefaultGoal ==
    [action_list |-> None, category |-> "", description |-> "",
     habituation_total |-> 0,
     last_preview_phase_step |-> 0, last_step |-> None,
     metadata |-> NoMetadata]

\* goal_output.metadata[key]['image'] = None, when both keys are present
WithoutImage(metadata, key) ==
    IF key \in DOMAIN metadata /\ "image" \in DOMAIN metadata[key]
    THEN [metadata EXCEPT ![key] = [@ EXCEPT !["image"] = None]]
    ELSE metadata

\* (fault) one image is hidden per call: the first that is not yet None
restrict_goal_one_image_per_call(cfg, goal_output) ==
    LET m == goal_output.metadata
        shown(key) == /\ key \in DOMAIN m
                      /\ "image" \in DOMAIN m[key]
                      /\ m[key].image # None
    IN  IF cfg.metadata_tier \in {"level1", "level2"}
        THEN [goal_output EXCEPT !.metadata =
                 IF shown("target") THEN WithoutImage(@, "target")
                 ELSE IF shown("target_1") THEN WithoutImage(@, "target_1")
                 ELSE WithoutImage(@, "target_2")]
        ELSE goal_output

\* (fault) the image of target_2 is left in the goal
restrict_goal_keeping_target_2(cfg, goal_output) ==
    IF cfg.metadata_tier \in {"level1", "level2"}
    THEN [goal_output EXCEPT !.metadata =
             WithoutImage(WithoutImage(@, "target"), "target_1")]
    ELSE goal_output

\* lines 703-724
restrict_goal_output_metadata(cfg, goal_output) ==
    IF cfg.metadata_tier \in {"level1", "level2"}
    THEN [goal_output EXCEPT !.metadata =
             WithoutImage(WithoutImage(WithoutImage(@, "target"),
                                       "target_1"), "target_2")]
    ELSE goal_output

\* goal_config.get(key, default): goal_config is scene_configuration['goal'],
\* a function from the keys that are present, {} when there is no goal
GoalGet(goal_config, key, default) ==
    IF key \in DOMAIN goal_config THEN goal_config[key] ELSE default

\* lines 758-760: goal_config['metadata']['category'] = ... is a KeyError
\* when the goal has a category and no metadata
retrieve_goal_raises(goal_config) ==
    "category" \in DOMAIN goal_config /\ "metadata" \notin DOMAIN goal_config

\* lines 758-760: the metadata after the category was copied into it
MetadataWithCategory(goal_config) ==
    LET m == GoalGet(goal_config, "metadata", NoMetadata)
    IN  IF "category" \in DOMAIN goal_config
        THEN [k \in DOMAIN m \cup {"category"} |->
                 IF k = "category" THEN goal_config["category"] ELSE m[k]]
        ELSE m

\* lines 762-772: GoalMetadata(...) of the fields read from the goal
GoalMetadata(config_data) ==
    [action_list |-> GoalGet(config_data, "action_list", None),
     category |-> GoalGet(config_data, "category", ""),
     description |-> GoalGet(config_data, "description", ""),
     habituation_total |-> GoalGet(config_data, "habituation_total", 0),
     last_preview_phase_step |->
         GoalGet(config_data, "last_preview_phase_step", 0),
     last_step |-> GoalGet(config_data, "last_step", None),
     metadata |-> MetadataWithCategory(config_data)]

\* lines 751-772
retrieve_goal(cfg, config_data) ==
    restrict_goal_output_metadata(cfg, GoalMetadata(config_data))

retrieve_action_list(g, step) ==
    IF ~IsNone(g.action_list)
    THEN IF step < g.last_preview_phase_step
         THEN <<"Pass">>
         ELSE LET adjusted_step == step - g.last_preview_phase_step
                  al == Val(g.action_list)
              IN  IF Len(al) > adjusted_step /\ Len(al[adjusted_step + 1]) > 0
                  THEN al[adjusted_step + 1]
                  ELSE ACTION_LIST
    ELSE ACTION_LIST

----------------------------------------------------------------------------
(* Construction *)

\* Constructor arguments and config-file tier the exploration starts from:
\* <<metadata tier read from the config file, depth_masks, object_masks>>
ConstructorInputs ==
    { [metadata |-> "",       depth_masks |-> Some(TRUE), object_masks |-> Some(TRUE)],
      [metadata |-> "level1", depth_masks |-> None,       object_masks |-> Some(TRUE)] }

\* _on_init: the order of preference for the depth / object mask settings
InitDepthMasks(tier, depth_masks) ==
    IF ~IsNone(depth_masks) THEN Val(depth_masks)
    ELSE tier \in {"level1", "level2", "oracle"}

InitObjectMasks(tier, object_masks) ==
    IF ~IsNone(object_masks) THEN Val(object_masks)
    ELSE tier \in {"level2", "oracle"}

----------------------------------------------------------------------------
(* Engine and snapshot *)

\* The engine returns one frame per call ("single") or a number of frames
\* that changes from call to call ("varied")
FramePatterns == {"single", "varied"}

FramesOf(pattern, k) ==
    IF pattern = "single" THEN 1 ELSE 1 + (k % MaxFrames)

\* The image buffers of the frames returned by the k-th engine call
Frames(pattern, k) == [i \in 1..FramesOf(pattern, k) |-> <<k, i>>]

\* (fault) the colours are randomized at every tier
wrap_step_random_colors(cfg, action) ==
    [action |-> action,
     consistentColors |-> FALSE,
     renderDepthImage |-> cfg.depth_masks,
     renderObjectImage |-> cfg.object_masks]

\* wrap_step: the payload handed to the engine
wrap_step(cfg, action) ==
    [action |-> action,
     consistentColors |-> (cfg.metadata_tier = "oracle"),
     renderDepthImage |-> cfg.depth_masks,
     renderObjectImage |-> cfg.object_masks]

\* save_images: the three buffer lists built from the engine's frames
save_images(cfg, frames) ==
    [image_list |-> frames,
     depth_data_list |-> IF cfg.depth_masks THEN frames ELSE <<>>,
     object_mask_list |-> IF cfg.object_masks THEN frames ELSE <<>>]

\* (fault) the object masks are kept at every tier
restrict_step_output_keeping_masks(cfg, step_output) ==
    IF cfg.metadata_tier \in {"level1", "level2"}
    THEN [step_output EXCEPT !.position = None, !.rotation = None]
    ELSE step_output

\* lines 726-738
restrict_step_output_metadata(cfg, step_output) ==
    LET o1 == IF cfg.metadata_tier = "level1"
              THEN [step_output EXCEPT !.object_mask_list = <<>>]
              ELSE step_output
    IN  IF cfg.metadata_tier \in {"level1", "level2"}
        THEN [o1 EXCEPT !.position = None, !.rotation = None]
        ELSE o1

\* An object of scene_event.metadata['objects'] or ['structuralObjects'].
\* Object ids are strings; a number stands for the id's place in the order
\* of strings.
ObjectMetadataOf(id, visible, held) ==
    [objectId |-> id, visibleInCamera |-> visible, isPickedUp |-> held]

\* The objects the engine of a session reports in every output
EngineObjects ==
    <<ObjectMetadataOf(2, TRUE, FALSE), ObjectMetadataOf(1, FALSE, FALSE)>>

EngineStructuralObjects == <<ObjectMetadataOf(3, TRUE, FALSE)>>

\* The names of the members of Pose and of ReturnStatus
PoseNames == {"STANDING", "CRAWLING", "LYING", "UNDEFINED"}

ReturnStatusNames == {"SUCCESSFUL", "UNDEFINED"}

\* The pose and the status the engine of a session reports in the output of
\* its k-th call: names the enums have and names they do not have, and
\* the empty status
EnginePose(k) == IF k % 2 = 1 THEN "STANDING" ELSE "FLYING"

EngineStatus(k) ==
    IF k % 3 = 1 THEN "SUCCESSFUL" ELSE IF k % 3 = 2 THEN "TELEPORTED" ELSE ""

\* scene_event: the engine's output; frames[1][1] is the number of the call
SceneEvent(frames) ==
    [frames |-> frames, objects |-> EngineObjects,
     structuralObjects |-> EngineStructuralObjects,
     pose |-> EnginePose(frames[1][1]),
     lastActionStatus |-> EngineStatus(frames[1][1])]

\* (fault) the engine's pose is passed on as it is
retrieve_pose_unchecked(scene_event) == scene_event.pose

\* lines 875-886: Pose[name].name, UNDEFINED on KeyError
retrieve_pose(scene_event) ==
    IF scene_event.pose \in PoseNames THEN scene_event.pose ELSE "UNDEFINED"

\* lines 891-907: an empty status is not looked up
retrieve_return_status(scene_event) ==
    IF scene_event.lastActionStatus # ""
       /\ scene_event.lastActionStatus \in ReturnStatusNames
    THEN scene_event.lastActionStatus
    ELSE "UNDEFINED"

\* lines 816-873: the ObjectMetadata built for an engine object
retrieve_object_output(object_metadata) ==
    [uuid |-> object_metadata.objectId]

RetrieveOutputs(objects) ==
    [i \in 1..Len(objects) |-> retrieve_object_output(objects[i])]

\* sorted(list, key=lambda x: x.uuid), which keeps the order of equal keys
RECURSIVE InsertByUuid(_, _)
InsertByUuid(x, l) ==
    IF l = <<>> THEN <<x>>
    ELSE IF x.uuid <= Head(l).uuid THEN <<x>> \o l
    ELSE <<Head(l)>> \o InsertByUuid(x, Tail(l))

RECURSIVE SortedByUuid(_)
SortedByUuid(l) ==
    IF l = <<>> THEN <<>>
    ELSE InsertByUuid(Head(l), SortedByUuid(Tail(l)))

VisibleOrHeld(o) == o.visibleInCamera \/ o.isPickedUp

Visible(o) == o.visibleInCamera

\* (fault) at the default tier every object is listed
retrieve_object_list_unfiltered(cfg, scene_event) ==
    IF cfg.metadata_tier \in {"level1", "level2"} THEN <<>>
    ELSE SortedByUuid(RetrieveOutputs(scene_event.objects))

\* lines 786-814
retrieve_object_list(cfg, scene_event) ==
    IF cfg.metadata_tier \in {"level1", "level2"} THEN <<>>
    ELSE IF cfg.metadata_tier = "oracle"
    THEN SortedByUuid(RetrieveOutputs(scene_event.objects))
    ELSE SortedByUuid(RetrieveOutputs(
             SelectSeq(scene_event.objects, VisibleOrHeld)))

\* lines 909-941
retrieve_structural_object_list(cfg, scene_event) ==
    IF cfg.metadata_tier \in {"level1", "level2"} THEN <<>>
    ELSE IF cfg.metadata_tier = "oracle"
    THEN SortedByUuid(RetrieveOutputs(scene_event.structuralObjects))
    ELSE SortedByUuid(RetrieveOutputs(
             SelectSeq(scene_event.structuralObjects, Visible)))

\* (fault) the snapshot carries the action list of the step it reports
wrap_output_of_past_step(cfg, g, step, trial, scene_event) ==
    LET bufs == save_images(cfg, scene_event.frames)
    IN  restrict_step_output_metadata(cfg,
            [action_list |->
                 retrieve_action_list(g, IF step > 0 THEN step - 1 ELSE 0),
             depth_data_list |-> bufs.depth_data_list,
             habituation_trial |->
                 IF g.habituation_total >= trial THEN Some(trial) ELSE None,
             image_list |-> bufs.image_list,
             object_list |-> retrieve_object_list(cfg, scene_event),
             object_mask_list |-> bufs.object_mask_list,
             pose |-> retrieve_pose(scene_event),
             position |-> Some("position"),
             return_status |-> retrieve_return_status(scene_event),
             rotation |-> Some("rotation"),
             step_number |-> step,
             structural_object_list |->
                 retrieve_structural_object_list(cfg, scene_event)])

\* wrap_output: the snapshot built from the engine's output
wrap_output(cfg, g, step, trial, scene_event) ==
    LET bufs == save_images(cfg, scene_event.frames)
    IN  restrict_step_output_metadata(cfg,
            [action_list |-> retrieve_action_list(g, step),
             depth_data_list |-> bufs.depth_data_list,
             habituation_trial |->
                 IF g.habituation_total >= trial THEN Some(trial) ELSE None,
             image_list |-> bufs.image_list,
             object_list |-> retrieve_object_list(cfg, scene_event),
             object_mask_list |-> bufs.object_mask_list,
             pose |-> retrieve_pose(scene_event),
             position |-> Some("position"),
             return_status |-> retrieve_return_status(scene_event),
             rotation |-> Some("rotation"),
             step_number |-> step,
             structural_object_list |->
                 retrieve_structural_object_list(cfg, scene_event)])

\* (fault) DropObject is sent under its own name
mcs_action_keeping_drop_object(action) ==
    IF action = "CloseObject" THEN "MCSCloseObject"
    ELSE IF action = "OpenObject" THEN "MCSOpenObject"
    ELSE action

mcs_action_to_ai2thor_action(action) ==
    IF action = "CloseObject" THEN "MCSCloseObject"
    ELSE IF action = "DropObject" THEN "DropHandObject"
    ELSE IF action = "OpenObject" THEN "MCSOpenObject"
    ELSE action

----------------------------------------------------------------------------
(* History *)

\* SceneHistory(step, action, ...): the record an accepted step creates.
\* scene is the start_scene call the step belongs to; it stands for the
\* identity of the Python object together with step.
SceneHistory(scene, step, action, snapshot) ==
    [scene |-> scene, step |-> step, action |-> action,
     classification |-> None, confidence |-> None,
     violations_xy_list |-> None, internal_state |-> None,
     output |-> snapshot]

\* del output.<name> for each of the names
DeleteAttributes(snapshot, names) ==
    [k \in DOMAIN snapshot \ names |-> snapshot[k]]

\* (fault) the record holds the snapshot as it is returned
output_copy_with_buffers(snapshot) == snapshot

\* lines 572-575: a deep copy of the snapshot without its three buffers
output_copy(snapshot) ==
    DeleteAttributes(snapshot,
                     {"depth_data_list", "image_list", "object_mask_list"})

\* controller_ai2thor.py lines 606-609
AI2THOR_output_copy(snapshot) ==
    DeleteAttributes(snapshot,
                     {"depth_mask_list", "image_list", "object_mask_list"})

\* The calls made on self.__history_writer
HistoryWriter(scene) ==
    [to |-> "history_writer", op |-> "HistoryWriter", scene |-> scene]

add_step(item) ==
    [to |-> "history_writer", op |-> "add_step", item |-> item]

write_history_file(choice, confidence) ==
    [to |-> "history_writer", op |-> "write_history_file",
     choice |-> choice, confidence |-> confidence]

check_file_written ==
    [to |-> "history_writer", op |-> "check_file_written"]

\* self._controller.step(payload): the call is tagged with the scene and the
\* step number it was made at
EngineStep(payload, scene, step) ==
    [to |-> "engine", payload |-> payload, scene |-> scene, step |-> step]

\* Number of engine calls in a list of calls
EngineCalls(cs) == Cardinality({i \in 1..Len(cs) : cs[i].to = "engine"})

----------------------------------------------------------------------------
(* Controller.step *)

\* The mutable fields of the controller that step() reads and writes
Self ==
    [step_number |-> step_number, habituation_trial |-> habituation_trial,
     history_item |-> history_item, history_writer |-> history_writer,
     calls |-> calls]

Returned(s, v) == [self |-> s, raised |-> FALSE, value |-> v]
Raised(s) == [self |-> s, raised |-> TRUE, value |-> None]

\* lines 513-514: hand the pending record to the writer
FlushPending(s) ==
    IF s.step_number > 0
    THEN [s EXCEPT !.calls = Append(@, add_step(s.history_item))]
    ELSE s

\* (fault) the step that would bring the counter to last_step is rejected
LastStepAhead(g, step) ==
    ~IsNone(g.last_step) /\ Val(g.last_step) = step + 1

\* (fault) the budget counts as used up only once the counter has gone
\* past last_step
LastStepPassed(g, step) ==
    ~IsNone(g.last_step) /\ Val(g.last_step) < step

\* lines 516-517
LastStepReached(g, step) ==
    ~IsNone(g.last_step) /\ Val(g.last_step) = step

\* (fault) the action is looked up in the full list of actions
PermittedAnyAction(g, step, action) ==
    InList(action, ACTION_LIST)

\* line 528
Permitted(g, step, action) ==
    InList(action, retrieve_action_list(g, step))

\* (fault) the counter is left as it is
SameStepNumber(step) == step

\* line 538
NextStepNumber(step) == step + 1

\* (fault) every accepted step ends a habituation trial
NextHabituationTrialOfAnyStep(action, trial) == trial + 1

\* lines 559-560
NextHabituationTrial(action, trial) ==
    IF action = "EndHabituation" THEN trial + 1 ELSE trial

\* (fault) the counter is incremented before the checks
RejectedAfterCounting(s) ==
    [self |-> [s EXCEPT !.step_number = @ + 1], raised |-> FALSE,
     value |-> None]

\* lines 522 and 536: return None
Rejected(s) == Returned(s, None)

\* (fault) the record is handed to the writer by the step that creates it
AcceptedStepWritesAtOnce(cfg, g, scene, s, action, pattern) ==
    LET step == NextStepNumber(s.step_number)
        ai2thor_action == mcs_action_to_ai2thor_action(action)
        trial == NextHabituationTrial(ai2thor_action, s.habituation_trial)
        frames == Frames(pattern, EngineCalls(s.calls) + 1)
        out == wrap_output(cfg, g, step, trial, SceneEvent(frames))
        item == Some(SceneHistory(scene, step, ai2thor_action,
                                  output_copy(out)))
    IN  Returned([s EXCEPT !.step_number = step,
                           !.habituation_trial = trial,
                           !.calls = @ \o <<EngineStep(wrap_step(cfg, ai2thor_action),
                                                       scene, step),
                                            add_step(item)>>,
                           !.history_item = item],
                 Some(out))

\* lines 538-583: an accepted step
AcceptedStep(cfg, g, scene, s, action, pattern) ==
    LET step == NextStepNumber(s.step_number)
        ai2thor_action == mcs_action_to_ai2thor_action(action)
        trial == NextHabituationTrial(ai2thor_action, s.habituation_trial)
        frames == Frames(pattern, EngineCalls(s.calls) + 1)
        out == wrap_output(cfg, g, step, trial, SceneEvent(frames))
    IN  Returned([s EXCEPT !.step_number = step,
                           !.habituation_trial = trial,
                           !.calls = Append(@, EngineStep(wrap_step(cfg, ai2thor_action),
                                                           scene, step)),
                           !.history_item =
                               Some(SceneHistory(scene, step, ai2thor_action,
                                                 output_copy(out)))],
                 Some(out))

\* Controller.step(action): the new controller fields and the return value
step(cfg, g, scene, s, action, pattern) ==
    IF s.step_number > 0 /\ IsNone(s.history_writer)
    THEN Raised(s)     \* None has no attribute add_step
    ELSE LET s1 == FlushPending(s)
         IN  IF LastStepReached(g, s1.step_number) THEN Rejected(s1)
             ELSE IF ~Permitted(g, s1.step_number, action) THEN Rejected(s1)
             ELSE AcceptedStep(cfg, g, scene, s1, action, pattern)

----------------------------------------------------------------------------
(* Controller.start_scene *)

\* Scene configurations handed to start_scene
ActionListInputs ==
    { None, Some(<< <<"Pass">>, <<"MoveAhead", "Pass">> >>) }

LastStepInputs == {None} \cup {Some(n) : n \in 1..MaxLastStep}

\* (skip_preview_phase only matters to a goal that has a preview phase)
SceneConfigs ==
    { c \in [action_list : ActionListInputs,
             habituation_total : {0},
             last_preview_phase_step : 0..MaxPreview,
             last_step : LastStepInputs,
             metadata : {NoMetadata},
             skip_preview_phase : {"absent", "false", "true"}] :
        c.last_preview_phase_step = 0 => c.skip_preview_phase = "absent" }

\* lines 334-336: the phase is skipped when the key is present
SkipPreviewPhase(config_data) == config_data.skip_preview_phase # "absent"

\* lines 329-332
OpenHistory(s, scene) ==
    IF IsNone(s.history_writer)
    THEN [s EXCEPT !.history_writer = Some([scene |-> scene]),
                   !.calls = Append(@, HistoryWriter(scene))]
    ELSE [s EXCEPT !.calls = Append(@, check_file_written)]

\* lines 358-363: iterations i..P-1 of the preview loop; acc holds the three
\* lists built so far, out the last output
RECURSIVE PreviewLoop(_, _, _, _, _, _, _, _)
PreviewLoop(cfg, g, scene, s, i, acc, out, pattern) ==
    IF i >= g.last_preview_phase_step
    THEN Returned(s, Some([out EXCEPT
                               !.image_list = acc.image_list,
                               !.depth_data_list = acc.depth_data_list,
                               !.object_mask_list = acc.object_mask_list]))
    ELSE LET r == step(cfg, g, scene, s, "Pass", pattern)
         IN  IF r.raised \/ IsNone(r.value)
             THEN Raised(r.self)    \* None has no attribute image_list
             ELSE LET o == Val(r.value)
                  IN  PreviewLoop(cfg, g, scene, r.self, i + 1,
                          [image_list |-> acc.image_list \o o.image_list,
                           depth_data_list |->
                               acc.depth_data_list \o o.depth_data_list,
                           object_mask_list |->
                               acc.object_mask_list \o o.object_mask_list],
                          o, pattern)

\* Controller.start_scene(config_data)
start_scene(cfg, scene, s, config_data, pattern) ==
    LET g == retrieve_goal(cfg, config_data)
        s0 == OpenHistory([s EXCEPT !.habituation_trial = 1,
                                    !.step_number = 0], scene)
        s1 == [s0 EXCEPT !.calls = Append(@, EngineStep(
                                       wrap_step(cfg, "Initialize"), scene, 0))]
        out == wrap_output(cfg, g, 0, 1,
                  SceneEvent(Frames(pattern, EngineCalls(s.calls) + 1)))
    IN  IF ~SkipPreviewPhase(config_data) /\ g.last_preview_phase_step > 0
        THEN PreviewLoop(cfg, g, scene, s1, 0,
                         [image_list |-> out.image_list,
                          depth_data_list |-> out.depth_data_list,
                          object_mask_list |-> out.object_mask_list],
                         out, pattern)
        ELSE Returned(s1, Some(out))

----------------------------------------------------------------------------
(* Controller.make_step_prediction and Controller.end_scene *)

PredictionInputs ==
    { [choice |-> Some("plausible"), confidence |-> Some(1),
       violations_xy_list |-> Some(<<>>), internal_state |-> Some("state")],
      [choice |-> Some("implausible"), confidence |-> None,
       violations_xy_list |-> None, internal_state |-> None] }

\* (fault) the confidence is not stored
PredictionWithoutConfidence(item, p) ==
    IF ~IsNone(item)
    THEN Some([Val(item) EXCEPT !.classification = p.choice,
                                !.violations_xy_list = p.violations_xy_list,
                                !.internal_state = p.internal_state])
    ELSE item

\* lines 622-626
make_step_prediction(item, p) ==
    IF ~IsNone(item)
    THEN Some([Val(item) EXCEPT !.classification = p.choice,
                                !.confidence = p.confidence,
                                !.violations_xy_list = p.violations_xy_list,
                                !.internal_state = p.internal_state])
    ELSE item

EndSceneInputs == { [choice |-> Some("plausible"), confidence |-> 1],
                    [choice |-> None, confidence |-> 0] }

\* (fault) the history is written with the default confidence
end_sceneDefaultConfidence(s, choice, confidence) ==
    IF IsNone(s.history_writer)
    THEN Raised(s)
    ELSE Returned([s EXCEPT !.calls =
                       @ \o <<add_step(s.history_item),
                              write_history_file(choice, 1)>>],
                  None)

\* lines 304-305
end_scene(s, choice, confidence) ==
    IF IsNone(s.history_writer)
    THEN Raised(s)     \* None has no attribute add_step
    ELSE Returned([s EXCEPT !.calls =
                       @ \o <<add_step(s.history_item),
                              write_history_file(choice, confidence)>>],
                  None)

----------------------------------------------------------------------------
(* The state machine: one action per API call *)

Install(r) ==
    /\ step_number' = r.self.step_number
    /\ habituation_trial' = r.self.habituation_trial
    /\ history_item' = r.self.history_item
    /\ history_writer' = r.self.history_writer
    /\ calls' = r.self.calls
    /\ output' = [raised |-> r.raised, value |-> r.value]
    /\ ncalls' = ncalls + 1

\* The first start_scene takes any scene configuration; a later one starts
\* the same scene configuration again
StartSceneInputs ==
    IF IsNone(scene_configuration) THEN SceneConfigs
    ELSE {Val(scene_configuration)}

Init ==
    /\ \E c \in ConstructorInputs :
          config = [metadata_tier |-> c.metadata,
                    depth_masks |-> InitDepthMasks(c.metadata, c.depth_masks),
                    object_masks |-> InitObjectMasks(c.metadata, c.object_masks)]
    /\ goal = DefaultGoal
    /\ step_number = 0
    /\ habituation_trial = 1
    /\ history_item = None
    /\ history_writer = None
    /\ scene_configuration = None
    /\ calls = <<>>
    /\ engine_frames \in FramePatterns
    /\ scene_count = 0
    /\ call = [op |-> "init"]
    /\ output = [raised |-> FALSE, value |-> None]
    /\ ncalls = 0
    /\ history_list = <<>>
    /\ random_state = NotDrawnFrom

StartScene ==
    /\ ncalls < MaxCalls
    /\ \E config_data \in StartSceneInputs :
          /\ Install(start_scene(config, scene_count + 1, Self, config_data,
                                 engine_frames))
          /\ scene_configuration' = Some(config_data)
          /\ goal' = retrieve_goal(config, config_data)
          /\ scene_count' = scene_count + 1
          /\ call' = [op |-> "start_scene", config_data |-> config_data]
    /\ UNCHANGED <<config, engine_frames, history_list, random_state>>

Step ==
    /\ ncalls < MaxCalls
    /\ \E action \in StepInputs :
          /\ Install(step(config, goal, scene_count, Self, action,
                          engine_frames))
          /\ call' = [op |-> "step", action |-> action]
    /\ UNCHANGED <<config, goal, scene_configuration, engine_frames,
                   scene_count, history_list, random_state>>

MakeStepPrediction ==
    /\ ncalls < MaxCalls
    /\ \E p \in PredictionInputs :
          /\ history_item' = make_step_prediction(history_item, p)
          /\ call' = [op |-> "make_step_prediction", prediction |-> p]
    /\ output' = [raised |-> FALSE, value |-> None]
    /\ ncalls' = ncalls + 1
    /\ UNCHANGED <<config, goal, step_number, habituation_trial,
                   history_writer, scene_configuration, calls,
                   engine_frames, scene_count, history_list, random_state>>

EndScene ==
    /\ ncalls < MaxCalls
    /\ \E e \in EndSceneInputs :
          /\ Install(end_scene(Self, e.choice, e.confidence))
          /\ call' = [op |-> "end_scene", choice |-> e.choice,
                      confidence |-> e.confidence]
    /\ UNCHANGED <<config, goal, scene_configuration, engine_frames,
                   scene_count, history_list, random_state>>

Next == StartScene \/ Step \/ MakeStepPrediction \/ EndScene

Spec == Init /\ [][Next]_vars

----------------------------------------------------------------------------
(* ControllerAI2THOR: the session of the older controller.  It has no      *)
(* history writer: step() appends its record to self.__history_list and    *)
(* writes it to the scene history file at once, and end_scene appends and  *)
(* writes one more line with the choice and the confidence.  The config    *)
(* file names no metadata mode and the scene is no screenshot scene, so    *)
(* the scene history file is set.                                          *)

\* The mutable fields of the controller
AI2THOR_Self ==
    [step_number |-> step_number, history_list |-> history_list,
     calls |-> calls]

\* wrap_step: the payload handed to the engine
AI2THOR_wrap_step(cfg, action) ==
    [action |-> action,
     renderDepthImage |-> cfg.depth_masks,
     renderObjectImage |-> cfg.object_masks]

\* lines 712-739: the images are hidden in the modes no_vision and none
AI2THOR_restrict_goal_output_metadata(cfg, goal_output) ==
    IF cfg.metadata_tier \in {"no_vision", "none"}
    THEN [goal_output EXCEPT !.metadata =
             WithoutImage(WithoutImage(WithoutImage(@, "target"),
                                       "target_1"), "target_2")]
    ELSE goal_output

\* lines 808-841
\* lines 826-827: info_list is read when the goal has a type_list
AI2THOR_retrieve_goal_raises(goal_config) ==
    \/ retrieve_goal_raises(goal_config)
    \/ /\ "type_list" \in DOMAIN goal_config
       /\ "info_list" \notin DOMAIN goal_config

\* lines 819-841: GoalMetadata(...) of the fields read from the goal
AI2THOR_GoalMetadata(config_data) ==
    [action_list |-> GoalGet(config_data, "action_list", None),
     category |-> GoalGet(config_data, "category", ""),
     description |-> GoalGet(config_data, "description", ""),
     domain_list |-> GoalGet(config_data, "domain_list", <<>>),
     info_list |-> IF "type_list" \in DOMAIN config_data
                   THEN config_data["info_list"] ELSE <<>>,
     last_preview_phase_step |->
         GoalGet(config_data, "last_preview_phase_step", 0),
     last_step |-> GoalGet(config_data, "last_step", None),
     type_list |-> GoalGet(config_data, "type_list", <<>>),
     metadata |-> MetadataWithCategory(config_data)]

\* lines 808-841
AI2THOR_retrieve_goal(cfg, config_data) ==
    AI2THOR_restrict_goal_output_metadata(cfg,
        AI2THOR_GoalMetadata(config_data))

\* lines 770-795: the modes no_vision and none hide the camera and the
\* masks, the modes no_navigation and none the position and the rotation
AI2THOR_restrict_step_output_metadata(cfg, step_output) ==
    LET o1 == IF cfg.metadata_tier \in {"no_vision", "none"}
              THEN [step_output EXCEPT !.camera_aspect_ratio = None,
                                       !.camera_clipping_planes = None,
                                       !.camera_field_of_view = None,
                                       !.camera_height = None,
                                       !.depth_mask_list = <<>>,
                                       !.object_mask_list = <<>>]
              ELSE step_output
    IN  IF cfg.metadata_tier \in {"no_navigation", "none"}
        THEN [o1 EXCEPT !.position = None, !.rotation = None]
        ELSE o1

\* wrap_output: the snapshot built from the engine's output
AI2THOR_wrap_output(cfg, g, n, frames) ==
    AI2THOR_restrict_step_output_metadata(cfg,
        [action_list |-> retrieve_action_list(g, n),
         camera_aspect_ratio |-> Some("aspect_ratio"),
         camera_clipping_planes |-> Some("clipping_planes"),
         camera_field_of_view |-> Some("field_of_view"),
         camera_height |-> Some("height"),
         depth_mask_list |-> IF cfg.depth_masks THEN frames ELSE <<>>,
         image_list |-> frames,
         object_mask_list |-> IF cfg.object_masks THEN frames ELSE <<>>,
         position |-> Some("position"),
         rotation |-> Some("rotation"),
         step_number |-> n])

\* write_history_file(history_string): one line appended to the file
AI2THOR_write_history_file(history_string) ==
    [to |-> "history_file", line |-> history_string]

\* Annotations a caller passes to step()
AI2THOR_StepAnnotations ==
    { [choice |-> None, confidence |-> None],
      [choice |-> Some("plausible"), confidence |-> Some(1)] }

\* ControllerAI2THOR.step(action, choice, confidence)
AI2THOR_step(cfg, g, scene, s, action, choice, confidence, pattern) ==
    IF ~IsNone(g.last_step) /\ Val(g.last_step) = s.step_number
    THEN Returned(s, None)
    ELSE IF ~InList(action, retrieve_action_list(g, s.step_number))
    THEN Returned(s, None)
    ELSE LET n == s.step_number + 1
             ai2thor_action == mcs_action_to_ai2thor_action(action)
             out == AI2THOR_wrap_output(cfg, g, n,
                        Frames(pattern, EngineCalls(s.calls) + 1))
             item ==
                 [SceneHistory(scene, n, ai2thor_action,
                               AI2THOR_output_copy(out)) EXCEPT
                      !.classification = choice, !.confidence = confidence]
         IN  Returned([s EXCEPT
                          !.step_number = n,
                          !.history_list = Append(@, item),
                          !.calls = @ \o
                              <<EngineStep(AI2THOR_wrap_step(cfg, ai2thor_action),
                                           scene, n),
                                AI2THOR_write_history_file(item)>>],
                      Some(out))

\* lines 347-352: iterations i..P-1 of the preview loop
RECURSIVE AI2THOR_PreviewLoop(_, _, _, _, _, _, _, _)
AI2THOR_PreviewLoop(cfg, g, scene, s, i, acc, out, pattern) ==
    IF i >= g.last_preview_phase_step
    THEN Returned(s, Some([out EXCEPT
                               !.image_list = acc.image_list,
                               !.depth_mask_list = acc.depth_mask_list,
                               !.object_mask_list = acc.object_mask_list]))
    ELSE LET r == AI2THOR_step(cfg, g, scene, s, "Pass", None, None, pattern)
         IN  IF IsNone(r.value)
             THEN Raised(r.self)    \* None has no attribute image_list
             ELSE LET o == Val(r.value)
                  IN  AI2THOR_PreviewLoop(cfg, g, scene, r.self, i + 1,
                          [image_list |-> acc.image_list \o o.image_list,
                           depth_mask_list |->
                               acc.depth_mask_list \o o.depth_mask_list,
                           object_mask_list |->
                               acc.object_mask_list \o o.object_mask_list],
                          o, pattern)

\* ControllerAI2THOR.start_scene(config_data)
AI2THOR_start_scene(cfg, scene, s, config_data, pattern) ==
    LET g == AI2THOR_retrieve_goal(cfg, config_data)
        s1 == [s EXCEPT !.step_number = 0,
                        !.history_list = <<>>,
                        !.calls = Append(@, EngineStep(
                                      AI2THOR_wrap_step(cfg, "Initialize"),
                                      scene, 0))]
        out == AI2THOR_wrap_output(cfg, g, 0,
                                   Frames(pattern, EngineCalls(s.calls) + 1))
    IN  IF ~SkipPreviewPhase(config_data) /\ g.last_preview_phase_step > 0
        THEN AI2THOR_PreviewLoop(cfg, g, scene, s1, 0,
                         [image_list |-> out.image_list,
                          depth_mask_list |-> out.depth_mask_list,
                          object_mask_list |-> out.object_mask_list],
                         out, pattern)
        ELSE Returned(s1, Some(out))

\* ControllerAI2THOR.end_scene(choice, confidence): the history line is
\* built by concatenating strings, '{"classification": "' + choice + ...,
\* which raises TypeError when choice is None
AI2THOR_end_scene(s, choice, confidence) ==
    IF IsNone(choice)
    THEN Raised(s)
    ELSE LET item == [classification |-> Val(choice),
                      confidence |-> confidence]
         IN  Returned([s EXCEPT
                          !.history_list = Append(@, item),
                          !.calls = Append(@,
                              AI2THOR_write_history_file(item))],
                      None)

AI2THOR_Install(r) ==
    /\ step_number' = r.self.step_number
    /\ history_list' = r.self.history_list
    /\ calls' = r.self.calls
    /\ output' = [raised |-> r.raised, value |-> r.value]
    /\ ncalls' = ncalls + 1
    /\ UNCHANGED <<config, engine_frames, habituation_trial, history_item,
                   history_writer, random_state>>

AI2THOR_StartScene ==
    /\ ncalls < MaxCalls
    /\ \E config_data \in StartSceneInputs :
          /\ AI2THOR_Install(AI2THOR_start_scene(config, scene_count + 1,
                                 AI2THOR_Self, config_data, engine_frames))
          /\ scene_configuration' = Some(config_data)
          /\ goal' = AI2THOR_retrieve_goal(config, config_data)
          /\ scene_count' = scene_count + 1
          /\ call' = [op |-> "start_scene", config_data |-> config_data]

AI2THOR_Step ==
    /\ ncalls < MaxCalls
    /\ \E action \in StepInputs, a \in AI2THOR_StepAnnotations :
          /\ AI2THOR_Install(AI2THOR_step(config, goal, scene_count,
                                 AI2THOR_Self, action, a.choice, a.confidence,
                                 engine_frames))
          /\ call' = [op |-> "step", action |-> action, choice |-> a.choice,
                      confidence |-> a.confidence]
    /\ UNCHANGED <<goal, scene_configuration, scene_count>>

AI2THOR_EndScene ==
    /\ ncalls < MaxCalls
    /\ \E e \in EndSceneInputs :
          /\ AI2THOR_Install(AI2THOR_end_scene(AI2THOR_Self, e.choice,
                                               e.confidence))
          /\ call' = [op |-> "end_scene", choice |-> e.choice,
                      confidence |-> e.confidence]
    /\ UNCHANGED <<goal, scene_configuration, scene_count>>

AI2THOR_Next == AI2THOR_StartScene \/ AI2THOR_Step \/ AI2THOR_EndScene

SpecAI2THOR == Init /\ [][AI2THOR_Next]_vars

----------------------------------------------------------------------------
(* Parameter validation: validate_and_convert_params of Controller and of  *)
(* ControllerAI2THOR.  A number x is represented by the integer x * Unit;  *)
(* a raw parameter value is [num |-> n] when it is a number and            *)
(* [str |-> s] when it is not; kwargs is a function from the keys that     *)
(* were passed to their raw values.                                        *)

Unit == 1000

\* Product of two numbers
Mul(a, b) == (a * b) \div Unit

Num(n) == [num |-> n]
NotNumber == [str |-> "abc"]

\* kwargs.get(key, default)
Get(kwargs, key, default) ==
    IF key \in DOMAIN kwargs THEN kwargs[key] ELSE Num(default)

\* Util.is_number(value, key)
Util_is_number(value) == "num" \in DOMAIN value

\* Util.is_in_range(value, min_value, max_value, default_value, key).  A
\* value outside the range is replaced: by default_value, or by the nearest
\* end of the range, as mode says.
Util_is_in_range(mode, value, min_value, max_value, default_value) ==
    IF min_value <= value /\ value <= max_value THEN value
    ELSE IF mode = "default" THEN default_value
    ELSE IF value < min_value THEN min_value
    ELSE max_value

\* Module and class constants of controller.py
MOVE_DISTANCE == Unit \div 10
DEFAULT_HORIZON == 0
DEFAULT_ROTATION == 0
DEFAULT_FORCE == Unit \div 2
DEFAULT_AMOUNT == Unit \div 2
DEFAULT_IMG_COORD == 0
DEFAULT_OBJECT_MOVE_AMOUNT == 1 * Unit
\* MAX_FORCE is assigned 50.0 at line 96 and 1 at line 105: the class
\* attribute holds the later value
MAX_FORCE == 1 * Unit
MIN_FORCE == 0
\* (fault) the range of amount ends at 2
MAX_AMOUNT_Two == 2 * Unit

MAX_AMOUNT == 1 * Unit
MIN_AMOUNT == 0
SCREEN_HEIGHT == 400 * Unit

FORCE_ACTIONS == <<"ThrowObject", "PushObject", "PullObject">>
OBJECT_MOVE_ACTIONS == <<"CloseObject", "OpenObject">>
MOVE_ACTIONS == <<"MoveAhead", "MoveLeft", "MoveRight", "MoveBack">>

\* Constants that only controller_ai2thor.py has
MAX_MOVE_DISTANCE == Unit \div 2
MAX_BABY_FORCE == 50 * Unit
DEFAULT_DIRECTION == 0
MAX_HORIZON == 180 * Unit
MIN_HORIZON == (0 - 180) * Unit

\* (fault) 0 is flipped like every other value
convert_y_flipping_zero(y) == SCREEN_HEIGHT - y

\* _convert_y_image_coord_for_unity
convert_y_image_coord_for_unity(y) ==
    IF y # 0 THEN SCREEN_HEIGHT - y ELSE y

\* A raw value checked with Util.is_number: the value if it is a number,
\* else the default
NumberOr(value, default) ==
    IF Util_is_number(value) THEN value.num ELSE default

\* lines 392-393 and 405-410: the default of amount depends on the action
DefaultAmount(action) ==
    IF InList(action, OBJECT_MOVE_ACTIONS) THEN DEFAULT_OBJECT_MOVE_AMOUNT
    ELSE DEFAULT_AMOUNT

\* (fault) a move action moves by the amount times the move distance
MoveMagnitudeByAmount(action, amount, force) ==
    LET m1 == IF InList(action, FORCE_ACTIONS) THEN Mul(force, MAX_FORCE)
              ELSE MOVE_DISTANCE
        m2 == IF InList(action, OBJECT_MOVE_ACTIONS) THEN amount ELSE m1
    IN  IF InList(action, MOVE_ACTIONS) THEN Mul(amount, MOVE_DISTANCE)
        ELSE m2

\* lines 385 and 454-462: the move magnitude, by the category of the action
MoveMagnitude(action, amount, force) ==
    LET m1 == IF InList(action, FORCE_ACTIONS) THEN Mul(force, MAX_FORCE)
              ELSE MOVE_DISTANCE
        m2 == IF InList(action, OBJECT_MOVE_ACTIONS) THEN amount ELSE m1
    IN  IF InList(action, MOVE_ACTIONS) THEN MOVE_DISTANCE ELSE m2

\* lines 385-462: the local variables of validate_and_convert_params when
\* it reaches the noise step.  rotation and horizon are taken from kwargs
\* as they are.
Validated(mode, action, kwargs) ==
    LET amount == Util_is_in_range(mode,
                      NumberOr(Get(kwargs, "amount", DefaultAmount(action)),
                               DefaultAmount(action)),
                      MIN_AMOUNT, MAX_AMOUNT, DEFAULT_AMOUNT)
        force == Util_is_in_range(mode,
                     NumberOr(Get(kwargs, "force", DEFAULT_FORCE),
                              DEFAULT_FORCE),
                     MIN_FORCE, MAX_FORCE, DEFAULT_FORCE)
    IN  [rotation |-> Get(kwargs, "rotation", DEFAULT_ROTATION),
         horizon |-> Get(kwargs, "horizon", DEFAULT_HORIZON),
         amount |-> amount,
         force |-> force,
         objectImageCoordsX |->
             NumberOr(Get(kwargs, "objectImageCoordsX", DEFAULT_IMG_COORD),
                      DEFAULT_IMG_COORD),
         objectImageCoordsY |->
             NumberOr(Get(kwargs, "objectImageCoordsY", DEFAULT_IMG_COORD),
                      DEFAULT_IMG_COORD),
         receptacleObjectImageCoordsX |->
             NumberOr(Get(kwargs, "receptacleObjectImageCoordsX",
                          DEFAULT_IMG_COORD), DEFAULT_IMG_COORD),
         receptacleObjectImageCoordsY |->
             NumberOr(Get(kwargs, "receptacleObjectImageCoordsY",
                          DEFAULT_IMG_COORD), DEFAULT_IMG_COORD),
         moveMagnitude |-> MoveMagnitude(action, amount, force)]

\* value * (1 + self.generate_noise()), n being the value generate_noise
\* returned
WithNoise(value, n) == Mul(value, Unit + n)

\* kwargs.get("objectId", None)
GetId(kwargs, key) ==
    IF key \in DOMAIN kwargs THEN Some(kwargs[key]) ELSE None

\* Controller.validate_and_convert_params(action, **kwargs); noise holds
\* the three values generate_noise returns when noise is enabled.
\* Multiplying a value that is no number by a float raises TypeError.
validate_and_convert_params(cfg, action, kwargs, noise) ==
    LET v == Validated(cfg.is_in_range, action, kwargs)
    IN  IF cfg.enable_noise
           /\ (~Util_is_number(v.rotation) \/ ~Util_is_number(v.horizon))
        THEN [raised |-> TRUE, value |-> None]
        ELSE [raised |-> FALSE,
              value |-> Some(
                [objectId |-> GetId(kwargs, "objectId"),
                 receptacleObjectId |-> GetId(kwargs, "receptacleObjectId"),
                 rotation |->
                     [y |-> IF cfg.enable_noise
                            THEN Num(WithNoise(v.rotation.num, noise[1]))
                            ELSE v.rotation],
                 horizon |-> IF cfg.enable_noise
                             THEN Num(WithNoise(v.horizon.num, noise[2]))
                             ELSE v.horizon,
                 moveMagnitude |-> IF cfg.enable_noise
                                   THEN WithNoise(v.moveMagnitude, noise[3])
                                   ELSE v.moveMagnitude,
                 objectImageCoords |->
                     [x |-> v.objectImageCoordsX,
                      y |-> convert_y_image_coord_for_unity(
                                v.objectImageCoordsY)],
                 receptacleObjectImageCoords |->
                     [x |-> v.receptacleObjectImageCoordsX,
                      y |-> convert_y_image_coord_for_unity(
                                v.receptacleObjectImageCoordsY)]])]

\* controller_ai2thor.py lines 373 and 470-478
AI2THOR_MoveMagnitude(action, amount, force) ==
    LET m1 == IF InList(action, FORCE_ACTIONS) THEN Mul(force, MAX_BABY_FORCE)
              ELSE MAX_MOVE_DISTANCE
        m2 == IF InList(action, OBJECT_MOVE_ACTIONS) THEN amount ELSE m1
    IN  IF InList(action, MOVE_ACTIONS) THEN Mul(amount, MAX_MOVE_DISTANCE)
        ELSE m2

\* controller_ai2thor.py lines 373-478: the local variables when the noise
\* step is reached
AI2THOR_Validated(mode, action, kwargs) ==
    LET rotation == NumberOr(Get(kwargs, "rotation", DEFAULT_ROTATION),
                             DEFAULT_ROTATION)
        horizon == Util_is_in_range(mode,
                       NumberOr(Get(kwargs, "horizon", DEFAULT_HORIZON),
                                DEFAULT_HORIZON),
                       MIN_HORIZON, MAX_HORIZON, DEFAULT_HORIZON)
        amount == Util_is_in_range(mode,
                      NumberOr(Get(kwargs, "amount", DefaultAmount(action)),
                               DefaultAmount(action)),
                      MIN_AMOUNT, MAX_AMOUNT, DEFAULT_AMOUNT)
        force == Util_is_in_range(mode,
                     NumberOr(Get(kwargs, "force", DEFAULT_FORCE),
                              DEFAULT_FORCE),
                     MIN_FORCE, MAX_FORCE, DEFAULT_FORCE)
        Direction(key) ==
            NumberOr(Get(kwargs, key, DEFAULT_DIRECTION), DEFAULT_DIRECTION)
    IN  [rotation |-> Num(rotation),
         horizon |-> Num(horizon),
         amount |-> amount,
         force |-> force,
         objectDirection |->
             [x |-> Direction("objectDirectionX"),
              y |-> Direction("objectDirectionY"),
              z |-> Direction("objectDirectionZ")],
         receptacleObjectDirection |->
             [x |-> Direction("receptacleObjectDirectionX"),
              y |-> Direction("receptacleObjectDirectionY"),
              z |-> Direction("receptacleObjectDirectionZ")],
         moveMagnitude |-> AI2THOR_MoveMagnitude(action, amount, force)]

\* ControllerAI2THOR.validate_and_convert_params(action, **kwargs)
AI2THOR_validate_and_convert_params(cfg, action, kwargs, noise) ==
    LET v == AI2THOR_Validated(cfg.is_in_range, action, kwargs)
    IN  [raised |-> FALSE,
         value |-> Some(
           [objectId |-> GetId(kwargs, "objectId"),
            receptacleObjectId |-> GetId(kwargs, "receptacleObjectId"),
            rotation |->
                [y |-> IF cfg.enable_noise
                       THEN Num(WithNoise(v.rotation.num, noise[1]))
                       ELSE v.rotation],
            horizon |-> IF cfg.enable_noise
                        THEN Num(WithNoise(v.horizon.num, noise[2]))
                        ELSE v.horizon,
            moveMagnitude |-> IF cfg.enable_noise
                              THEN WithNoise(v.moveMagnitude, noise[3])
                              ELSE v.moveMagnitude,
            objectDirection |-> v.objectDirection,
            receptacleObjectDirection |-> v.receptacleObjectDirection])]

\* (fault) the action is renamed before its parameters are validated
ConvertedStepRenamedFirst(cfg, action, kwargs, noise) ==
    LET ai2thor_action == mcs_action_to_ai2thor_action(action)
        r == IF cfg.variant = "Controller"
             THEN validate_and_convert_params(cfg, ai2thor_action, kwargs,
                                              noise)
             ELSE AI2THOR_validate_and_convert_params(cfg, ai2thor_action,
                                                      kwargs, noise)
    IN  IF r.raised THEN r
        ELSE [raised |-> FALSE,
              value |-> Some([action |-> ai2thor_action,
                              params |-> Val(r.value)])]

\* Controller.step lines 553-557 (controller_ai2thor.py 590-594): the
\* parameters are validated for the action that was asked for, and the
\* action is renamed afterwards
ConvertedStep(cfg, action, kwargs, noise) ==
    LET r == IF cfg.variant = "Controller"
             THEN validate_and_convert_params(cfg, action, kwargs, noise)
             ELSE AI2THOR_validate_and_convert_params(cfg, action, kwargs,
                                                      noise)
    IN  IF r.raised THEN r
        ELSE [raised |-> FALSE,
              value |-> Some([action |-> mcs_action_to_ai2thor_action(action),
                              params |-> Val(r.value)])]

----------------------------------------------------------------------------
(* Parameter validation: the calls explored *)

\* Action names validation is called with; "MCSOpenObject" is the engine's
\* name of OpenObject and no member of Action
ValidateActions ==
    {"MoveAhead", "MoveLeft", "MoveRight", "MoveBack", "ThrowObject",
     "PushObject", "PullObject", "OpenObject", "CloseObject", "Pass",
     "PickupObject", "DropObject", "MCSOpenObject"}

\* A key is absent from kwargs or has one of the given values
Opt(values) == {<<>>} \cup {<<x>> : x \in values}

\* The kwargs with the keys that are present
Present(c) == [k \in {k \in DOMAIN c : c[k] # <<>>} |-> c[k][1]]

AmountInputs ==
    {NotNumber} \cup
    {Num(x) : x \in {0 - Unit \div 2, 0, 2 * (Unit \div 5), Unit,
                     3 * (Unit \div 2)}}

ForceInputs ==
    {NotNumber} \cup
    {Num(x) : x \in {0 - Unit \div 2, 3 * (Unit \div 5), Unit,
                     3 * (Unit \div 2)}}

NumericKwargs ==
    { Present(c) :
        c \in [rotation : Opt({NotNumber, Num(90 * Unit)}),
               horizon : Opt({NotNumber, Num(30 * Unit), Num(200 * Unit)}),
               amount : Opt(AmountInputs),
               force : Opt(ForceInputs)] }

NoKwargs == [k \in {} |-> NotNumber]

CoordKwargs(variant) ==
    IF variant = "Controller"
    THEN { NoKwargs,
           [objectImageCoordsX |-> NotNumber,
            objectImageCoordsY |-> NotNumber,
            receptacleObjectImageCoordsX |-> NotNumber,
            receptacleObjectImageCoordsY |-> NotNumber],
           [objectImageCoordsX |-> Num(10 * Unit),
            objectImageCoordsY |-> Num(0),
            receptacleObjectImageCoordsX |-> Num(20 * Unit),
            receptacleObjectImageCoordsY |-> Num(100 * Unit)],
           [objectId |-> "ball",
            objectImageCoordsY |-> Num(100 * Unit)] }
    ELSE { NoKwargs,
           [objectDirectionX |-> NotNumber,
            objectDirectionY |-> NotNumber,
            objectDirectionZ |-> NotNumber,
            receptacleObjectDirectionX |-> NotNumber,
            receptacleObjectDirectionY |-> NotNumber,
            receptacleObjectDirectionZ |-> NotNumber],
           [objectId |-> "ball",
            objectDirectionX |-> Num(Unit),
            objectDirectionZ |-> Num(0 - Unit),
            receptacleObjectDirectionY |-> Num(Unit)] }

\* generate_noise: the values random.uniform(-0.5, 0.5) can return
generate_noise == (0 - Unit \div 2)..(Unit \div 2)

\* Values generate_noise returns for rotation, horizon and moveMagnitude
NoiseInputs ==
    { n \in { <<Unit \div 2, 0 - Unit \div 2, Unit \div 25>>,
              <<0 - Unit \div 5, 0, Unit \div 5>> } :
        \A i \in 1..3 : n[i] \in generate_noise }

NoNoise == <<0, 0, 0>>

\* The controller (which class, noise enabled or not, how Util.is_in_range
\* replaces a value outside the range) and the call to be made
ValidateInit ==
    /\ config \in [variant : {"Controller", "ControllerAI2THOR"},
                   enable_noise : BOOLEAN,
                   is_in_range : {"default", "nearest"}]
    /\ \E action \in ValidateActions, nk \in NumericKwargs,
          ck \in CoordKwargs(config.variant),
          noise \in NoiseInputs \cup {NoNoise} :
          /\ config.enable_noise <=> noise # NoNoise
          /\ call = [op |-> "pending", action |-> action, kwargs |-> nk @@ ck,
                     noise |-> noise]
    /\ goal = DefaultGoal
    /\ step_number = 0
    /\ habituation_trial = 1
    /\ history_item = None
    /\ history_writer = None
    /\ scene_configuration = None
    /\ calls = <<>>
    /\ engine_frames = "single"
    /\ scene_count = 0
    /\ output = [raised |-> FALSE, value |-> None]
    /\ ncalls = 0
    /\ history_list = <<>>
    /\ random_state = NotDrawnFrom

ValidateUnchanged ==
    UNCHANGED <<config, goal, step_number, habituation_trial, history_item,
                history_writer, scene_configuration, calls, engine_frames,
                scene_count, history_list, random_state>>

\* validate_and_convert_params called directly
Validate ==
    /\ call.op = "pending"
    /\ call' = [call EXCEPT !.op = "validate_and_convert_params"]
    /\ output' = IF config.variant = "Controller"
                 THEN validate_and_convert_params(config, call.action,
                                                  call.kwargs, call.noise)
                 ELSE AI2THOR_validate_and_convert_params(config, call.action,
                                                  call.kwargs, call.noise)
    /\ ncalls' = ncalls + 1
    /\ ValidateUnchanged

\* validate_and_convert_params called by an accepted step(action, **kwargs)
StepConvert ==
    /\ call.op = "pending"
    /\ InList(call.action, ACTION_LIST)
    /\ call' = [call EXCEPT !.op = "step"]
    /\ output' = ConvertedStep(config, call.action, call.kwargs, call.noise)
    /\ ncalls' = ncalls + 1
    /\ ValidateUnchanged

ValidateNext == Validate \/ StepConvert

SpecValidate == ValidateInit /\ [][ValidateNext]_vars

----------------------------------------------------------------------------
(* Metadata tiers: the filters applied to a snapshot, a goal and a payload *)

\* The value of 'metadata' in the config file: the tiers of Controller and
\* the modes of ControllerAI2THOR; '' when the file declares none
Tiers == {"", "level1", "level2", "oracle"}

Modes == {"", "full", "no_navigation", "no_vision", "none"}

\* The object_masks argument of the constructor
ObjectMasksInputs == {None, Some(TRUE)}

TierConfigs ==
    { [variant |-> "Controller", metadata_tier |-> t,
       depth_masks |-> InitDepthMasks(t, None),
       object_masks |-> InitObjectMasks(t, m)] :
          t \in Tiers, m \in ObjectMasksInputs }
    \cup
    { [variant |-> "ControllerAI2THOR", metadata_tier |-> t,
       depth_masks |-> TRUE, object_masks |-> TRUE] : t \in Modes }

\* Engine outputs: the objects and the structural objects, in the order the
\* engine lists them
ObjectInputs ==
    { [objects |-> <<>>, structuralObjects |-> <<>>],
      [objects |-> EngineObjects,
       structuralObjects |-> EngineStructuralObjects],
      [objects |-> <<ObjectMetadataOf(2, FALSE, TRUE),
                     ObjectMetadataOf(1, TRUE, TRUE)>>,
       structuralObjects |-> <<ObjectMetadataOf(5, TRUE, FALSE),
                               ObjectMetadataOf(4, FALSE, TRUE)>>],
      [objects |-> <<ObjectMetadataOf(3, FALSE, FALSE),
                     ObjectMetadataOf(1, TRUE, FALSE),
                     ObjectMetadataOf(2, FALSE, FALSE)>>,
       structuralObjects |-> <<ObjectMetadataOf(5, TRUE, FALSE),
                               ObjectMetadataOf(4, TRUE, FALSE)>>] }

SceneEventInputs ==
    { [frames |-> Frames("varied", k), objects |-> o.objects,
       structuralObjects |-> o.structuralObjects,
       pose |-> EnginePose(Len(o.objects)),
       lastActionStatus |-> EngineStatus(Len(o.objects))] :
          k \in 1..MaxFrames, o \in ObjectInputs }

\* A target of a goal: with an image, with an image that is None, without
TargetInputs ==
    { [id |-> "ball", image |-> Some("pixels")],
      [id |-> "ball", image |-> None],
      [id |-> "ball"] }

\* The metadata of a goal: "distractor" is a key no tier looks at
MetadataInputs ==
    {NoMetadata}
    \cup [{"target"} -> TargetInputs]
    \cup [{"target_1", "target_2"} -> TargetInputs]
    \cup [{"target", "distractor"} -> TargetInputs]

GoalConfigInputs ==
    [action_list : {None}, habituation_total : {0},
     last_preview_phase_step : {0}, last_step : {None},
     metadata : MetadataInputs, skip_preview_phase : {"absent"}]

\* Actions of the payloads: Initialize and the engine's names of steps
WrapStepInputs == {"Initialize", "Pass", "MCSOpenObject"}

TierInit ==
    /\ config \in TierConfigs
    /\ \E ev \in SceneEventInputs, gc \in GoalConfigInputs,
          a \in WrapStepInputs :
          call = [op |-> "pending", scene_event |-> ev, goal_config |-> gc,
                  action |-> a]
    /\ goal = DefaultGoal
    /\ step_number = 0
    /\ habituation_trial = 1
    /\ history_item = None
    /\ history_writer = None
    /\ scene_configuration = None
    /\ calls = <<>>
    /\ engine_frames = "varied"
    /\ scene_count = 0
    /\ output = [raised |-> FALSE, value |-> None]
    /\ ncalls = 0
    /\ history_list = <<>>
    /\ random_state = NotDrawnFrom

\* wrap_output(scene_event) of a scene whose goal is goal_config
TierWrapOutput ==
    /\ call.op = "pending"
    /\ call' = [call EXCEPT !.op = "wrap_output"]
    /\ output' =
          [raised |-> FALSE,
           value |-> Some(
               IF config.variant = "Controller"
               THEN wrap_output(config,
                                retrieve_goal(config, call.goal_config),
                                0, 1, call.scene_event)
               ELSE AI2THOR_wrap_output(config,
                        AI2THOR_retrieve_goal(config, call.goal_config),
                        0, call.scene_event.frames))]
    /\ ncalls' = ncalls + 1
    /\ ValidateUnchanged

\* restrict_step_output_metadata applied to the snapshot once more
TierRestrictStepOutput ==
    /\ call.op = "wrap_output"
    /\ call' = [call EXCEPT !.op = "restrict_step_output_metadata"]
    /\ output' =
          [raised |-> FALSE,
           value |-> Some(
               IF config.variant = "Controller"
               THEN restrict_step_output_metadata(config, Val(output.value))
               ELSE AI2THOR_restrict_step_output_metadata(config,
                                                          Val(output.value)))]
    /\ ncalls' = ncalls + 1
    /\ ValidateUnchanged

\* retrieve_goal(scene_configuration)
TierRetrieveGoal ==
    /\ call.op = "pending"
    /\ call' = [call EXCEPT !.op = "retrieve_goal"]
    /\ output' =
          [raised |-> FALSE,
           value |-> Some(
               IF config.variant = "Controller"
               THEN retrieve_goal(config, call.goal_config)
               ELSE AI2THOR_retrieve_goal(config, call.goal_config))]
    /\ ncalls' = ncalls + 1
    /\ ValidateUnchanged

\* restrict_goal_output_metadata applied to the goal once more
TierRestrictGoalOutput ==
    /\ call.op = "retrieve_goal"
    /\ call' = [call EXCEPT !.op = "restrict_goal_output_metadata"]
    /\ output' =
          [raised |-> FALSE,
           value |-> Some(
               IF config.variant = "Controller"
               THEN restrict_goal_output_metadata(config, Val(output.value))
               ELSE AI2THOR_restrict_goal_output_metadata(config,
                                                          Val(output.value)))]
    /\ ncalls' = ncalls + 1
    /\ ValidateUnchanged

\* wrap_step(action=...)
TierWrapStep ==
    /\ call.op = "pending"
    /\ call' = [call EXCEPT !.op = "wrap_step"]
    /\ output' =
          [raised |-> FALSE,
           value |-> Some(IF config.variant = "Controller"
                          THEN wrap_step(config, call.action)
                          ELSE AI2THOR_wrap_step(config, call.action))]
    /\ ncalls' = ncalls + 1
    /\ ValidateUnchanged

TierNext ==
    \/ TierWrapOutput
    \/ TierRestrictStepOutput
    \/ TierRetrieveGoal
    \/ TierRestrictGoalOutput
    \/ TierWrapStep

SpecTier == TierInit /\ [][TierNext]_vars

----------------------------------------------------------------------------
(* Goals built from partial configurations and StepMetadata defaults *)

\* The keys of scene_configuration['goal'] that retrieve_goal reads
GoalKeys ==
    {"action_list", "category", "description", "habituation_total",
     "last_preview_phase_step", "last_step", "metadata", "domain_list",
     "info_list", "type_list"}

\* The value a goal gives to a key
GoalValue(key) ==
    CASE key = "action_list" -> Some(<< <<"Pass">> >>)
      [] key = "category" -> "intphys"
      [] key = "description" -> "described"
      [] key = "habituation_total" -> 2
      [] key = "last_preview_phase_step" -> 1
      [] key = "last_step" -> Some(MaxLastStep)
      [] key = "metadata" -> [target |-> [id |-> "ball"]]
      [] key = "domain_list" -> <<"objects">>
      [] key = "info_list" -> <<"ball">>
      [] key = "type_list" -> <<"interaction">>

\* Goals with every combination of missing keys; the goal of no key is
\* also the goal of a scene configuration that has none
PartialGoalConfigs ==
    { [k \in keys |-> GoalValue(k)] : keys \in SUBSET GoalKeys }

\* step_metadata.py lines 90-109: the defaults of the parameters
StepMetadataDefault(key) ==
    CASE key \in {"camera_field_of_view", "camera_height", "head_tilt",
                  "reward", "rotation", "step_number"} -> Some(0)
      [] key \in {"pose", "return_status"} -> Some("UNDEFINED")
      [] OTHER -> None

\* The parameters for which None is replaced, and by what
StepMetadataIfNone(key) ==
    CASE key \in {"action_list", "depth_mask_list", "image_list",
                  "object_list", "object_mask_list",
                  "structural_object_list"} -> Some(<<>>)
      [] key \in {"camera_aspect_ratio", "camera_clipping_planes"}
            -> Some(<<0, 0>>)
      [] key = "goal" -> Some(AI2THOR_GoalMetadata(<<>>))
      [] key = "position" -> Some(<<>>)
      [] OTHER -> None

StepMetadataFields ==
    {"action_list", "camera_aspect_ratio", "camera_clipping_planes",
     "camera_field_of_view", "camera_height", "depth_mask_list", "goal",
     "head_tilt", "image_list", "object_list", "object_mask_list", "pose",
     "position", "return_status", "reward", "rotation", "step_number",
     "structural_object_list"}

\* (fault) an argument that is None is stored as None
StepMetadataKeepingNone(kwargs) ==
    [key \in StepMetadataFields |->
        IF key \in DOMAIN kwargs THEN kwargs[key]
        ELSE StepMetadataDefault(key)]

\* step_metadata.py lines 90-135: StepMetadata(**kwargs). A field holds
\* Some(value), or None for Python's None; numbers 0.0 are written 0
StepMetadata(kwargs) ==
    [key \in StepMetadataFields |->
        LET arg == IF key \in DOMAIN kwargs THEN kwargs[key]
                   ELSE StepMetadataDefault(key)
        IN  IF IsNone(arg) THEN StepMetadataIfNone(key) ELSE arg]

\* The arguments a caller passes to StepMetadata
StepMetadataKeys ==
    {"action_list", "goal", "object_list", "pose", "position", "reward",
     "step_number"}

StepMetadataValue(key) ==
    CASE key = "action_list" -> Some(<<"Pass">>)
      [] key = "goal" -> None
      [] key = "object_list" -> None
      [] key = "pose" -> Some("STANDING")
      [] key = "position" -> Some([x |-> 1])
      [] key = "reward" -> Some(1)
      [] key = "step_number" -> Some(MaxCalls)

StepMetadataKwargs ==
    { [k \in keys |-> StepMetadataValue(k)] :
          keys \in SUBSET StepMetadataKeys }

MetadataInit ==
    /\ config \in [variant : {"Controller", "ControllerAI2THOR"},
                   metadata_tier : {"", "level1"}]
    /\ call \in { [op |-> "pending", goal_config |-> gc] :
                      gc \in PartialGoalConfigs }
               \cup { [op |-> "pending", kwargs |-> kw] :
                         kw \in StepMetadataKwargs }
    /\ goal = DefaultGoal
    /\ step_number = 0
    /\ habituation_trial = 1
    /\ history_item = None
    /\ history_writer = None
    /\ scene_configuration = None
    /\ calls = <<>>
    /\ engine_frames = "single"
    /\ scene_count = 0
    /\ output = [raised |-> FALSE, value |-> None]
    /\ ncalls = 0
    /\ history_list = <<>>
    /\ random_state = NotDrawnFrom

\* retrieve_goal(scene_configuration)
MetadataRetrieveGoal ==
    /\ call.op = "pending"
    /\ "goal_config" \in DOMAIN call
    /\ call' = [call EXCEPT !.op = "retrieve_goal"]
    /\ output' =
          IF config.variant = "Controller"
          THEN IF retrieve_goal_raises(call.goal_config)
               THEN [raised |-> TRUE, value |-> None]
               ELSE [raised |-> FALSE,
                     value |-> Some(retrieve_goal(config, call.goal_config))]
          ELSE IF AI2THOR_retrieve_goal_raises(call.goal_config)
               THEN [raised |-> TRUE, value |-> None]
               ELSE [raised |-> FALSE,
                     value |-> Some(AI2THOR_retrieve_goal(config,
                                                          call.goal_config))]
    /\ ncalls' = ncalls + 1
    /\ ValidateUnchanged

\* StepMetadata(**kwargs)
MetadataStepMetadata ==
    /\ call.op = "pending"
    /\ "kwargs" \in DOMAIN call
    /\ call' = [call EXCEPT !.op = "StepMetadata"]
    /\ output' = [raised |-> FALSE, value |-> Some(StepMetadata(call.kwargs))]
    /\ ncalls' = ncalls + 1
    /\ ValidateUnchanged

MetadataNext == MetadataRetrieveGoal \/ MetadataStepMetadata

SpecMetadata == MetadataInit /\ [][MetadataNext]_vars

----------------------------------------------------------------------------
(* Noise and the seed: the same calls made on two controllers, each        *)
(* created in a process of its own with the same arguments.  The generator *)
(* of the random module is one per process; it stands with a state nobody  *)
(* chose until random.seed is called.                                      *)

\* The generator has RandomModulus states
RandomModulus == 8
RandomStates == 0..(RandomModulus - 1)

\* random.seed(a): the state is a function of the absolute value of a
random_seed(a) == (3 * (IF a < 0 THEN 0 - a ELSE a) + 1) % RandomModulus

\* random.uniform(-0.5, 0.5): the value returned and the state left
random_uniform(s) ==
    [value |-> (s * Unit) \div RandomModulus - Unit \div 2,
     state |-> (5 * s + 3) % RandomModulus]

\* _on_init lines 219-223 (controller_ai2thor.py 215-218): the generator
\* is seeded if self.__seed is true, which None and 0 are not
on_init_seed(seed, s) ==
    IF ~IsNone(seed) /\ Val(seed) # 0 THEN random_seed(Val(seed)) ELSE s

SeedInputs == {None, Some(0), Some(1), Some(0 - 6)}

\* The three calls of generate_noise at lines 465-467, from the state s
NoiseDraws(s) ==
    LET d1 == random_uniform(s)
        d2 == random_uniform(d1.state)
        d3 == random_uniform(d2.state)
    IN  [noise |-> <<d1.value, d2.value, d3.value>>,
         states |-> <<d1.state, d2.state, d3.state>>]

\* validate_and_convert_params with the noise drawn from the generator:
\* the result and the state the generator is left in.  Controller raises
\* on multiplying a rotation or a horizon that is no number, after
\* generate_noise has returned.
validate_drawing_noise(cfg, action, kwargs, s) ==
    LET d == NoiseDraws(s)
        v == Validated(cfg.is_in_range, action, kwargs)
    IN  IF ~cfg.enable_noise
        THEN [result |-> IF cfg.variant = "Controller"
                         THEN validate_and_convert_params(cfg, action, kwargs,
                                                          NoNoise)
                         ELSE AI2THOR_validate_and_convert_params(cfg, action,
                                                          kwargs, NoNoise),
              state |-> s]
        ELSE IF cfg.variant = "Controller"
        THEN [result |-> validate_and_convert_params(cfg, action, kwargs,
                                                     d.noise),
              state |-> IF ~Util_is_number(v.rotation) THEN d.states[1]
                        ELSE IF ~Util_is_number(v.horizon) THEN d.states[2]
                        ELSE d.states[3]]
        ELSE [result |-> AI2THOR_validate_and_convert_params(cfg, action,
                                                     kwargs, d.noise),
              state |-> d.states[3]]

SeedActions == {"MoveAhead", "PushObject", "Pass"}

SeedKwargs ==
    { NoKwargs,
      [rotation |-> Num(90 * Unit), horizon |-> Num(30 * Unit),
       force |-> Num(Unit)],
      [rotation |-> NotNumber],
      [horizon |-> NotNumber, amount |-> Num(Unit \div 5)] }

\* The two controllers after construction
SeedInit ==
    /\ config \in [variant : {"Controller", "ControllerAI2THOR"},
                   enable_noise : BOOLEAN,
                   is_in_range : {"default", "nearest"},
                   seed : SeedInputs]
    /\ \E s \in [Runs -> RandomStates] :
          random_state = [r \in Runs |-> on_init_seed(config.seed, s[r])]
    /\ call = [op |-> "init"]
    /\ goal = DefaultGoal
    /\ step_number = 0
    /\ habituation_trial = 1
    /\ history_item = None
    /\ history_writer = None
    /\ scene_configuration = None
    /\ calls = <<>>
    /\ engine_frames = "single"
    /\ scene_count = 0
    /\ output = [raised |-> FALSE, value |-> None]
    /\ ncalls = 0
    /\ history_list = <<>>

\* validate_and_convert_params(action, **kwargs) called on both
\* controllers; output holds what the two calls returned
SeedValidate ==
    /\ ncalls < MaxCalls
    /\ \E action \in SeedActions, kwargs \in SeedKwargs :
          LET res == [r \in Runs |->
                        validate_drawing_noise(config, action, kwargs,
                                               random_state[r])]
          IN  /\ call' = [op |-> "validate_and_convert_params",
                          action |-> action, kwargs |-> kwargs]
              /\ output' = [raised |-> \E r \in Runs : res[r].result.raised,
                            value |-> [r \in Runs |-> res[r].result.value]]
              /\ random_state' = [r \in Runs |-> res[r].state]
    /\ ncalls' = ncalls + 1
    /\ UNCHANGED <<config, goal, step_number, habituation_trial, history_item,
                   history_writer, scene_configuration, calls, engine_frames,
                   scene_count, history_list>>

SeedNext == SeedValidate

SpecSeed == SeedInit /\ [][SeedNext]_vars

----------------------------------------------------------------------------
(* Reading the list of calls *)

IsEngineStep(e) == e.to = "engine" /\ e.payload.action # "Initialize"

IsAddStep(e) == e.to = "history_writer" /\ e.op = "add_step"

\* The calls that hand the record of step n of scene sc to the writer
Handovers(cs, sc, n) ==
    { i \in 1..Len(cs) : /\ IsAddStep(cs[i])
                         /\ ~IsNone(cs[i].item)
                         /\ Val(cs[i].item).scene = sc
                         /\ Val(cs[i].item).step = n }

\* The calls made during the last transition
NewCalls == (Len(calls) + 1)..Len(calls')

NoNewEngineCall == \A i \in NewCalls : calls'[i].to # "engine"

NoNewWriterCall == \A i \in NewCalls : calls'[i].to # "history_writer"

\* start_scene returns a snapshot for this scene configuration: the step
\* budget does not run out while the preview phase is auto-stepped
PreviewFits(cd) ==
    \/ cd.skip_preview_phase # "absent"
    \/ IsNone(cd.last_step)
    \/ Val(cd.last_step) >= cd.last_preview_phase_step

\* The last call was the end_scene of a run start_scene, step and
\* make_step_prediction calls, end_scene
OneSceneRun ==
    /\ scene_count = 1
    /\ PreviewFits(Val(scene_configuration))
    /\ call.op = "end_scene"
    /\ ~output.raised
    /\ calls[1].to = "history_writer"
    /\ Cardinality({ i \in 1..Len(calls) :
                        /\ calls[i].to = "history_writer"
                        /\ calls[i].op = "write_history_file" }) = 1

----------------------------------------------------------------------------
(* C1: in a run start_scene, steps and predictions, end_scene, the record  *)
(* of every accepted step is handed to the history writer exactly once.    *)
C1_EveryRecordHandedExactlyOnce ==
    OneSceneRun =>
        \A i \in 1..Len(calls) :
            IsEngineStep(calls[i]) =>
                Cardinality(Handovers(calls, calls[i].scene, calls[i].step)) = 1

(* C2: a step() rejected because its action is not permitted returns no    *)
(* snapshot, makes no call on the history writer and leaves the pending    *)
(* record as it is, at every step index.                                   *)
C2_RejectedStepLeavesHistory ==
    [][ ( /\ call'.op = "step"
          /\ ~output'.raised
          /\ ~(~IsNone(goal.last_step) /\ Val(goal.last_step) = step_number)
          /\ ~InList(call'.action, retrieve_action_list(goal, step_number)) )
        => ( /\ IsNone(output'.value)
             /\ NoNewWriterCall
             /\ history_item' = history_item ) ]_vars

NewPassSteps ==
    { i \in NewCalls : IsEngineStep(calls'[i]) /\ calls'[i].payload.action = "Pass" }

C4_NotPermittedIsNoOp ==
    [][ ( /\ call'.op = "step"
          /\ ~IsNone(history_writer)
          /\ ~InList(call'.action, retrieve_action_list(goal, step_number)) )
        => ( /\ ~output'.raised
             /\ IsNone(output'.value)
             /\ step_number' = step_number
             /\ habituation_trial' = habituation_trial
             /\ NoNewEngineCall ) ]_vars

C4_Witness ==
    /\ call.op = "step"
    /\ IsNone(output.value)
    /\ ~output.raised
    /\ ~InList(call.action, retrieve_action_list(goal, step_number))
    /\ ~(~IsNone(goal.last_step) /\ Val(goal.last_step) = step_number)

(* C5: once the step counter equals the goal's last_step, every step()     *)
(* call returns None, sends nothing to the engine and leaves the counter,  *)
(* and so do make_step_prediction and end_scene: the budget stays          *)
(* exhausted until the next start_scene.                                   *)
C5_BudgetExhausted ==
    [][ ( /\ ~IsNone(goal.last_step)
          /\ Val(goal.last_step) = step_number
          /\ call'.op # "start_scene" )
        => ( /\ step_number' = step_number
             /\ NoNewEngineCall
             /\ call'.op = "step" => (~output'.raised /\ IsNone(output'.value)) )
      ]_vars

C5_Witness ==
    /\ call.op = "step"
    /\ IsNone(output.value)
    /\ ~output.raised
    /\ ~IsNone(goal.last_step)
    /\ Val(goal.last_step) = step_number
    /\ call.action = "Pass"

\* The last call returned with an accepted step as the last thing it did
LastCallAcceptedStep ==
    \/ call.op = "step" /\ ~IsNone(output.value)
    \/ call.op = "start_scene" /\ ~IsNone(output.value) /\ step_number > 0

C7_PredictionInRecord ==
    [][ ( /\ call.op = "make_step_prediction"
          /\ step_number > 0
          /\ call'.op \in {"step", "end_scene"}
          /\ ~output'.raised )
        => ( /\ Len(calls') > Len(calls)
             /\ LET e == calls'[Len(calls) + 1]
                IN  /\ IsAddStep(e)
                    /\ ~IsNone(e.item)
                    /\ Val(e.item).scene = scene_count
                    /\ Val(e.item).step = step_number
                    /\ Val(e.item).classification = call.prediction.choice
                    /\ Val(e.item).confidence = call.prediction.confidence
                    /\ Val(e.item).violations_xy_list =
                          call.prediction.violations_xy_list
                    /\ Val(e.item).internal_state =
                          call.prediction.internal_state ) ]_vars

C7_Witness ==
    /\ call.op = "step"
    /\ Len(calls) > 0
    /\ \E i \in 1..Len(calls) :
          /\ IsAddStep(calls[i])
          /\ ~IsNone(calls[i].item)
          /\ Val(calls[i].item).classification = Some("plausible")
          /\ Val(calls[i].item).confidence = Some(1)
          /\ Val(calls[i].item).internal_state = Some("state")

C8Scenario(cd) ==
    /\ cd.last_preview_phase_step = 2
    /\ IsNone(cd.action_list)
    /\ cd.skip_preview_phase = "absent"
    /\ IsNone(cd.last_step)

IsEngineCall(e) == e.to = "engine"

\* The buffers of engine calls k..last, in order
RECURSIVE FramesFrom(_, _, _)
FramesFrom(pattern, k, last) ==
    IF k > last THEN <<>>
    ELSE Frames(pattern, k) \o FramesFrom(pattern, k + 1, last)

(* C9: when the goal has last_preview_phase_step = P > 0 and does not ask  *)
(* to skip the phase, start_scene sends Initialize and then exactly P      *)
(* 'Pass' steps to the engine, and the image, depth and object-mask lists  *)
(* of the snapshot it returns are the buffers of these 1 + P outputs in    *)
(* order.                                                                  *)
C9_PreviewConcatenation ==
    [][ ( /\ call'.op = "start_scene"
          /\ call'.config_data.last_preview_phase_step > 0
          /\ call'.config_data.skip_preview_phase = "absent" )
        => LET P == call'.config_data.last_preview_phase_step
               sent == SelectSeq(SubSeq(calls', Len(calls) + 1, Len(calls')),
                                 IsEngineCall)
               k0 == EngineCalls(calls) + 1
               all == FramesFrom(engine_frames, k0, k0 + P)
           IN  /\ Len(sent) = 1 + P
               /\ sent[1].payload.action = "Initialize"
               /\ \A i \in 2..(1 + P) : sent[i].payload.action = "Pass"
               /\ ~IsNone(output'.value)
               /\ Val(output'.value).image_list = all
               /\ Val(output'.value).depth_data_list =
                     IF config.depth_masks THEN all ELSE <<>>
               /\ Val(output'.value).object_mask_list =
                     IF config.object_masks /\ config.metadata_tier # "level1"
                     THEN all ELSE <<>> ]_vars

\* The step indices the lookup is tried on
StepIndices == 0..(MaxPreview + MaxLastStep + 1)

\* The lookup as C10 states it
PermittedActionsAsStated(g, s) ==
    IF s < g.last_preview_phase_step THEN <<"Pass">>
    ELSE LET k == s - g.last_preview_phase_step + 1
         IN  IF /\ ~IsNone(g.action_list)
                /\ Len(Val(g.action_list)) >= k
                /\ Len(Val(g.action_list)[k]) > 0
             THEN Val(g.action_list)[k]
             ELSE ACTION_LIST

(* C10: the permitted-action lookup gives ['Pass'] for every step index    *)
(* inside the preview window, else the configured list of the post-preview *)
(* index when there is a non-empty one, else the full list of actions, for *)
(* every goal, one with no configured action list included.                *)
C10_PermittedActionLookup ==
    \A s \in StepIndices :
        retrieve_action_list(goal, s) = PermittedActionsAsStated(goal, s)

----------------------------------------------------------------------------
(* Ending a scene *)

IsInitialize(e) == e.to = "engine" /\ e.payload.action = "Initialize"

IsWriteHistoryFile(e) ==
    e.to = "history_writer" /\ e.op = "write_history_file"

\* A scene history was written and no scene has been started since
SceneEnded(cs) ==
    \E i \in 1..Len(cs) :
        /\ IsWriteHistoryFile(cs[i])
        /\ \A j \in (i + 1)..Len(cs) : ~IsInitialize(cs[j])

(* C11: after end_scene returned and until the next start_scene, no step() *)
(* call is accepted: it returns no snapshot, sends no payload to the       *)
(* engine, leaves the step counter, and no record is handed to the history *)
(* writer of the ended scene.                                              *)
C11_NoStepAfterEndScene ==
    [][ (SceneEnded(calls) /\ call'.op = "step")
        => ( /\ IsNone(output'.value)
             /\ NoNewEngineCall
             /\ step_number' = step_number
             /\ NoNewWriterCall ) ]_vars

(* C12: an end_scene(choice, confidence) call that returns makes exactly   *)
(* two calls on the history writer: add_step with the pending record, then *)
(* write_history_file with the choice and the confidence it was given.     *)
C12_EndSceneWritesChoice ==
    [][ (call'.op = "end_scene" /\ ~output'.raised)
        => ( /\ Len(calls') = Len(calls) + 2
             /\ LET a == calls'[Len(calls) + 1]
                    w == calls'[Len(calls) + 2]
                IN  /\ IsAddStep(a)
                    /\ a.item = history_item
                    /\ IsWriteHistoryFile(w)
                    /\ w.choice = call'.choice
                    /\ w.confidence = call'.confidence ) ]_vars

C12_Witness ==
    /\ call.op = "end_scene"
    /\ ~output.raised
    /\ call.confidence = 0
    /\ ~IsNone(history_item)
    /\ calls[Len(calls) - 1] = add_step(history_item)
    /\ calls[Len(calls)].confidence = 0

\* A scene is active: the last start_scene returned a snapshot and no
\* end_scene has written the history of the scene since (for Controller the
\* write is in the list of calls, for ControllerAI2THOR the line is the last
\* item of the history list)
ActiveScene ==
    /\ ~IsNone(scene_configuration)
    /\ PreviewFits(Val(scene_configuration))
    /\ call.op \in {"start_scene", "step", "make_step_prediction"}
    /\ ~SceneEnded(calls)
    /\ \A i \in 1..Len(history_list) : "step" \in DOMAIN history_list[i]

(* C13: in every state of an active scene (right after start_scene, after  *)
(* rejected steps, after the step budget is used up) an end_scene call     *)
(* returns without raising.                                                *)
C13_EndSceneAlwaysLegal ==
    [][ (ActiveScene /\ call'.op = "end_scene") => ~output'.raised ]_vars

(* C14: every start_scene call creates a history writer for the scene it   *)
(* starts, so that the writer the records of a scene are handed to is the  *)
(* one created for that scene and two scenes run one after the other on    *)
(* the same controller have two different writers.                         *)
C14_NewHistoryPerScene ==
    [][ call'.op = "start_scene"
        => ( /\ \E i \in NewCalls : calls'[i] = HistoryWriter(scene_count')
             /\ ~IsNone(history_writer')
             /\ Val(history_writer').scene = scene_count' ) ]_vars

\* The scene call i of the list was made in: the number of Initialize
\* payloads sent before it
SceneAt(cs, i) == Cardinality({ j \in 1..i : IsInitialize(cs[j]) })

\* Call i was made between a start_scene and the end_scene that matches it
InScene(cs, i) ==
    /\ SceneAt(cs, i) > 0
    /\ \A j \in 1..(i - 1) :
          IsWriteHistoryFile(cs[j]) => SceneAt(cs, j) < SceneAt(cs, i)

(* C15: every record handed to the history writer between a start_scene    *)
(* and the matching end_scene is a record (not None) created by a step     *)
(* accepted in that scene, also when end_scene is called before any step   *)
(* was accepted.                                                           *)
C15_HistoryScopedToScene ==
    \A i \in 1..Len(calls) :
        (IsAddStep(calls[i]) /\ InScene(calls, i))
        => ( /\ ~IsNone(calls[i].item)
             /\ Val(calls[i].item).scene = SceneAt(calls, i) )

----------------------------------------------------------------------------
(* Parameter validation *)

\* The call made was validate_and_convert_params, on either controller
Validating == call.op = "validate_and_convert_params"

\* The raw value of a key is missing or is no number
MissingOrNotNumber(kwargs, key) ==
    key \notin DOMAIN kwargs \/ "num" \notin DOMAIN kwargs[key]

\* The local variables of the call made, before noise
ValidatedOfCall ==
    IF config.variant = "Controller"
    THEN Validated(config.is_in_range, call.action, call.kwargs)
    ELSE AI2THOR_Validated(config.is_in_range, call.action, call.kwargs)

(* C16: validate_and_convert_params raises nothing and returns a payload,  *)
(* for every action name and every raw parameter mapping (values missing,  *)
(* not numeric or out of range), with noise enabled or disabled.           *)
C16_ValidationNeverFails ==
    Validating => (~output.raised /\ ~IsNone(output.value))

(* C17: a raw value that is missing or not numeric gives the documented    *)
(* default in what validate_and_convert_params returns: rotation 0,        *)
(* horizon 0, coordinates and direction components 0, and for the amount   *)
(* and the force it computes with, force 0.5 and amount 0.5 (1 for         *)
(* OpenObject and CloseObject).                                            *)
C17_DocumentedDefaults ==
    (Validating /\ ~output.raised)
    => LET kw == call.kwargs
           payload == Val(output.value)
           v == ValidatedOfCall
       IN  /\ MissingOrNotNumber(kw, "rotation") => payload.rotation.y = Num(0)
           /\ MissingOrNotNumber(kw, "horizon") => payload.horizon = Num(0)
           /\ MissingOrNotNumber(kw, "force") => v.force = Unit \div 2
           /\ MissingOrNotNumber(kw, "amount")
              => v.amount = IF call.action \in {"OpenObject", "CloseObject"}
                            THEN Unit ELSE Unit \div 2
           /\ config.variant = "Controller"
              => /\ MissingOrNotNumber(kw, "objectImageCoordsX")
                    => payload.objectImageCoords.x = 0
                 /\ MissingOrNotNumber(kw, "objectImageCoordsY")
                    => payload.objectImageCoords.y = 0
                 /\ MissingOrNotNumber(kw, "receptacleObjectImageCoordsX")
                    => payload.receptacleObjectImageCoords.x = 0
                 /\ MissingOrNotNumber(kw, "receptacleObjectImageCoordsY")
                    => payload.receptacleObjectImageCoords.y = 0
           /\ config.variant = "ControllerAI2THOR"
              => /\ MissingOrNotNumber(kw, "objectDirectionX")
                    => payload.objectDirection.x = 0
                 /\ MissingOrNotNumber(kw, "objectDirectionY")
                    => payload.objectDirection.y = 0
                 /\ MissingOrNotNumber(kw, "objectDirectionZ")
                    => payload.objectDirection.z = 0
                 /\ MissingOrNotNumber(kw, "receptacleObjectDirectionX")
                    => payload.receptacleObjectDirection.x = 0
                 /\ MissingOrNotNumber(kw, "receptacleObjectDirectionY")
                    => payload.receptacleObjectDirection.y = 0
                 /\ MissingOrNotNumber(kw, "receptacleObjectDirectionZ")
                    => payload.receptacleObjectDirection.z = 0

\* The numbers from 0 to 1
UnitInterval == 0..Unit

(* C18: for every raw amount and force, those outside the range included,  *)
(* the amount and the force validate_and_convert_params computes with lie  *)
(* in the closed interval [0, 1] before noise is applied.                  *)
C18_AmountAndForceInUnitInterval ==
    Validating => ( /\ ValidatedOfCall.amount \in UnitInterval
                    /\ ValidatedOfCall.force \in UnitInterval )

C18_Witness ==
    /\ Validating
    /\ config.variant = "Controller"
    /\ ~output.raised
    /\ ~MissingOrNotNumber(call.kwargs, "amount")
    /\ call.kwargs.amount.num > Unit
    /\ ~MissingOrNotNumber(call.kwargs, "force")
    /\ call.kwargs.force.num < 0

\* The raw amount of the call is a number in the range [0, 1]
ValidAmount ==
    /\ ~MissingOrNotNumber(call.kwargs, "amount")
    /\ call.kwargs.amount.num \in UnitInterval

\* The raw rotation, horizon and force of the call are missing or numbers
\* (the force in its range)
ValidOthers ==
    /\ \A key \in {"rotation", "horizon", "force"} :
          key \in DOMAIN call.kwargs => "num" \in DOMAIN call.kwargs[key]
    /\ "force" \in DOMAIN call.kwargs
       => call.kwargs.force.num \in UnitInterval

(* C19: for MoveAhead, MoveLeft, MoveRight and MoveBack with valid input,  *)
(* the move magnitude before noise is 0.1 in Controller whatever the       *)
(* amount, and the validated amount (the amount passed) times 0.5 in       *)
(* ControllerAI2THOR; with noise disabled it is the moveMagnitude of the   *)
(* payload.                                                                *)
C19_MoveMagnitudeOfMoves ==
    ( /\ Validating
      /\ call.action \in {"MoveAhead", "MoveLeft", "MoveRight", "MoveBack"}
      /\ ValidAmount
      /\ ValidOthers )
    => LET expected ==
               IF config.variant = "Controller" THEN Unit \div 10
               ELSE (call.kwargs.amount.num * (Unit \div 2)) \div Unit
       IN  /\ ValidatedOfCall.amount = call.kwargs.amount.num
           /\ ValidatedOfCall.moveMagnitude = expected
           /\ ~output.raised
           /\ ~config.enable_noise
              => Val(output.value).moveMagnitude = expected

C19_Witness ==
    /\ Validating
    /\ call.action = "MoveLeft"
    /\ ValidAmount
    /\ ValidOthers
    /\ call.kwargs.amount.num = 2 * (Unit \div 5)
    /\ ~config.enable_noise
    /\ config.variant = "ControllerAI2THOR"
    /\ Val(output.value).moveMagnitude = Unit \div 5

\* The move magnitude Controller is said to derive from the category of
\* an action, given the validated amount and force
MagnitudeByCategory(action, v) ==
    IF action \in {"ThrowObject", "PushObject", "PullObject"}
    THEN Mul(v.force, MAX_FORCE)
    ELSE IF action \in {"OpenObject", "CloseObject"} THEN v.amount
    ELSE Unit \div 10

(* C20: in Controller the move magnitude before noise follows the category *)
(* of the action that was asked for, not of the name it is renamed to:     *)
(* ThrowObject, PushObject and PullObject give the validated force times   *)
(* MAX_FORCE, OpenObject and CloseObject the validated amount, every other *)
(* action the move distance 0.1 whatever amount or force was passed; with  *)
(* noise disabled it is the moveMagnitude of the payload, also in the      *)
(* payload of a step whose action was renamed.                             *)
C20_MagnitudeByActionCategory ==
    (config.variant = "Controller" /\ call.op # "pending" /\ ~output.raised)
    => LET v == ValidatedOfCall
           expected == MagnitudeByCategory(call.action, v)
       IN  /\ v.moveMagnitude = expected
           /\ (Validating /\ ~config.enable_noise)
              => Val(output.value).moveMagnitude = expected
           /\ (call.op = "step" /\ ~config.enable_noise)
              => /\ Val(output.value).params.moveMagnitude = expected
                 /\ Val(output.value).action =
                       mcs_action_to_ai2thor_action(call.action)

C20_Witness ==
    /\ config.variant = "Controller"
    /\ ~config.enable_noise
    /\ call.op = "step"
    /\ call.action = "OpenObject"
    /\ ~MissingOrNotNumber(call.kwargs, "amount")
    /\ call.kwargs.amount.num = 2 * (Unit \div 5)
    /\ ~output.raised
    /\ Val(output.value).action = "MCSOpenObject"
    /\ Val(output.value).params.moveMagnitude = 2 * (Unit \div 5)

----------------------------------------------------------------------------
(* Noise and coordinates *)

\* v * (1 + n) as C21 states it
Perturbed(v, n) == (v * (Unit + n)) \div Unit

\* The identifiers and coordinate vectors of a payload are those of kwargs
\* after validation, with no noise in them
IdsAndVectorsUnperturbed(payload, kw, v) ==
    /\ payload.objectId =
          IF "objectId" \in DOMAIN kw THEN <<kw.objectId>> ELSE <<>>
    /\ payload.receptacleObjectId =
          IF "receptacleObjectId" \in DOMAIN kw
          THEN <<kw.receptacleObjectId>> ELSE <<>>
    /\ config.variant = "Controller"
       => /\ payload.objectImageCoords.x = v.objectImageCoordsX
          /\ payload.objectImageCoords.y \in
                {v.objectImageCoordsY, 400 * Unit - v.objectImageCoordsY}
          /\ payload.receptacleObjectImageCoords.x =
                v.receptacleObjectImageCoordsX
          /\ payload.receptacleObjectImageCoords.y \in
                {v.receptacleObjectImageCoordsY,
                 400 * Unit - v.receptacleObjectImageCoordsY}
    /\ config.variant = "ControllerAI2THOR"
       => /\ payload.objectDirection = v.objectDirection
          /\ payload.receptacleObjectDirection = v.receptacleObjectDirection

(* C21: validate_and_convert_params returns a payload in which, when noise *)
(* is enabled, rotation, horizon and moveMagnitude are their validated     *)
(* values v times (1 + n), each with its own n and with no clamping after  *)
(* it, and in which they are exactly v when noise is disabled; the object  *)
(* identifiers and the coordinate vectors carry no noise.                  *)
C21_NoiseAfterValidation ==
    Validating
    => /\ ~output.raised
       /\ LET payload == Val(output.value)
              v == ValidatedOfCall
              n == call.noise
          IN  /\ config.enable_noise
                 => /\ payload.rotation.y = Num(Perturbed(v.rotation.num, n[1]))
                    /\ payload.horizon = Num(Perturbed(v.horizon.num, n[2]))
                    /\ payload.moveMagnitude = Perturbed(v.moveMagnitude, n[3])
              /\ ~config.enable_noise
                 => /\ payload.rotation.y = v.rotation
                    /\ payload.horizon = v.horizon
                    /\ payload.moveMagnitude = v.moveMagnitude
              /\ IdsAndVectorsUnperturbed(payload, call.kwargs, v)

Abs(x) == IF x < 0 THEN 0 - x ELSE x

\* a differs from b by at most 5 percent of b
WithinFivePercent(a, b) == 20 * Abs(a - b) <= Abs(b)

(* C22: with noise enabled every value generate_noise returned lies        *)
(* between -0.05 and 0.05, so the rotation, the horizon and the            *)
(* moveMagnitude of the payload differ from their validated values by at   *)
(* most 5 percent.                                                         *)
C22_NoiseAtMostFivePercent ==
    (Validating /\ config.enable_noise /\ ~output.raised)
    => LET payload == Val(output.value)
           v == ValidatedOfCall
       IN  /\ \A i \in 1..3 : Abs(call.noise[i]) <= Unit \div 20
           /\ WithinFivePercent(payload.rotation.y.num, v.rotation.num)
           /\ WithinFivePercent(payload.horizon.num, v.horizon.num)
           /\ WithinFivePercent(payload.moveMagnitude, v.moveMagnitude)

\* The number passed for a key, 0 when it is missing or no number
PassedOrZero(kw, key) ==
    IF MissingOrNotNumber(kw, key) THEN 0 ELSE kw[key].num

\* The Y coordinate as the engine is to get it
FlippedUnlessZero(y) == IF y = 0 THEN 0 ELSE SCREEN_HEIGHT - y

(* C23: in the payload of Controller the object and receptacle Y           *)
(* coordinates are screen_height - y for every y different from 0 and 0    *)
(* when y is 0 (the default of a missing or non-numeric value included);   *)
(* the X coordinates are the values passed.                                *)
C23_YFlippedUnlessZero ==
    (Validating /\ config.variant = "Controller" /\ ~output.raised)
    => LET payload == Val(output.value)
           kw == call.kwargs
       IN  /\ payload.objectImageCoords.x =
                 PassedOrZero(kw, "objectImageCoordsX")
           /\ payload.objectImageCoords.y =
                 FlippedUnlessZero(PassedOrZero(kw, "objectImageCoordsY"))
           /\ payload.receptacleObjectImageCoords.x =
                 PassedOrZero(kw, "receptacleObjectImageCoordsX")
           /\ payload.receptacleObjectImageCoords.y =
                 FlippedUnlessZero(
                     PassedOrZero(kw, "receptacleObjectImageCoordsY"))

C23_Witness ==
    /\ Validating
    /\ config.variant = "Controller"
    /\ ~output.raised
    /\ ~MissingOrNotNumber(call.kwargs, "objectImageCoordsY")
    /\ call.kwargs.objectImageCoordsY.num = 0
    /\ ~MissingOrNotNumber(call.kwargs, "receptacleObjectImageCoordsY")
    /\ call.kwargs.receptacleObjectImageCoordsY.num = 100 * Unit
    /\ Val(output.value).objectImageCoords.y = 0
    /\ Val(output.value).receptacleObjectImageCoords.y = 300 * Unit
    /\ Val(output.value).objectImageCoords.x = 10 * Unit

----------------------------------------------------------------------------
(* Metadata tiers *)

\* The call returned a snapshot: start_scene, or a step that was accepted
ReturnedSnapshot ==
    /\ call.op \in {"start_scene", "step"}
    /\ ~output.raised
    /\ ~IsNone(output.value)

(* C24: at tier level1 every snapshot that start_scene or an accepted     *)
(* step returns has an empty object_mask_list and no position and no      *)
(* rotation, whatever the engine returned and whatever object_masks the   *)
(* controller was constructed with.                                       *)
C24_Level1HidesMasksAndPose ==
    (ReturnedSnapshot /\ config.metadata_tier = "level1")
    => /\ Val(output.value).object_mask_list = <<>>
       /\ Val(output.value).position = None
       /\ Val(output.value).rotation = None

\* start_scene returned the snapshot of a preview phase at level1, built
\* from more than one engine output, with object masks rendered
C24_Witness ==
    /\ ReturnedSnapshot
    /\ config.metadata_tier = "level1"
    /\ config.object_masks
    /\ call.op = "start_scene"
    /\ call.config_data.last_preview_phase_step = MaxPreview
    /\ ~SkipPreviewPhase(call.config_data)
    /\ Len(Val(output.value).image_list) > MaxPreview
    /\ Val(output.value).object_mask_list = <<>>
    /\ Val(output.value).position = None

\* Controller built the value the call returned
TierCall(op) == call.op = op /\ config.variant = "Controller"

(* C25: tier filtering is idempotent. For every tier and mode, applying    *)
(* restrict_step_output_metadata to a snapshot that went through it gives  *)
(* the same snapshot, and applying restrict_goal_output_metadata to a goal *)
(* that went through it gives the same goal.                               *)
C25_TierFilteringIdempotent ==
    [][call'.op \in {"restrict_step_output_metadata",
                     "restrict_goal_output_metadata"}
       => output' = output]_vars

\* A goal with two target images was filtered a second time at level2
C25_Witness ==
    /\ TierCall("restrict_goal_output_metadata")
    /\ config.metadata_tier = "level2"
    /\ DOMAIN call.goal_config.metadata = {"target_1", "target_2"}
    /\ call.goal_config.metadata.target_1 =
          [id |-> "ball", image |-> Some("pixels")]
    /\ call.goal_config.metadata.target_2 =
          [id |-> "ball", image |-> Some("pixels")]
    /\ Val(output.value).metadata.target_1.image = None
    /\ Val(output.value).metadata.target_2.image = None

(* C26: at the oracle tier the snapshot and the goal are returned as they  *)
(* were built, with nothing hidden, and the payload of Initialize and of   *)
(* every step has consistentColors = true; at every other tier, the        *)
(* undeclared one included, the payload has consistentColors = false.      *)
C26_OracleSeesAll ==
    /\ TierCall("wrap_step")
       => Val(output.value).consistentColors
              = (config.metadata_tier = "oracle")
    /\ (TierCall("wrap_output") /\ config.metadata_tier = "oracle")
       => LET out == Val(output.value)
              bufs == save_images(config, call.scene_event.frames)
          IN  /\ out.position = Some("position")
              /\ out.rotation = Some("rotation")
              /\ out.image_list = bufs.image_list
              /\ out.depth_data_list = bufs.depth_data_list
              /\ out.object_mask_list = bufs.object_mask_list
    /\ (TierCall("retrieve_goal") /\ config.metadata_tier = "oracle")
       => Val(output.value) = GoalMetadata(call.goal_config)

C26_Witness ==
    /\ TierCall("wrap_step")
    /\ config.metadata_tier = "oracle"
    /\ call.action = "Initialize"
    /\ Val(output.value).action = "Initialize"
    /\ Val(output.value).consistentColors

\* The ids of the engine objects of a list that satisfy a condition
IdsOf(objects, Cond(_)) ==
    {objects[i].objectId : i \in {j \in 1..Len(objects) : Cond(objects[j])}}

AnyObject(o) == TRUE

\* The list holds exactly the objects of the given ids, ordered by id
ListsExactly(list, ids) ==
    /\ {list[i].uuid : i \in 1..Len(list)} = ids
    /\ Len(list) = Cardinality(ids)
    /\ \A i, j \in 1..Len(list) : i < j => list[i].uuid <= list[j].uuid

(* C27: the object lists of a snapshot are both empty at level1 and        *)
(* level2; at the undeclared tier object_list holds exactly the engine     *)
(* objects that are visible in the camera or held and                      *)
(* structural_object_list exactly the structural objects visible in the    *)
(* camera; at oracle each list holds every engine object of its kind; the  *)
(* lists are ordered by object id.                                         *)
C27_ObjectListsByTier ==
    TierCall("wrap_output")
    => LET out == Val(output.value)
           ev == call.scene_event
           tier == config.metadata_tier
       IN  /\ tier \in {"level1", "level2"}
              => /\ out.object_list = <<>>
                 /\ out.structural_object_list = <<>>
           /\ tier = ""
              => /\ ListsExactly(out.object_list,
                                 IdsOf(ev.objects, VisibleOrHeld))
                 /\ ListsExactly(out.structural_object_list,
                                 IdsOf(ev.structuralObjects, Visible))
           /\ tier = "oracle"
              => /\ ListsExactly(out.object_list,
                                 IdsOf(ev.objects, AnyObject))
                 /\ ListsExactly(out.structural_object_list,
                                 IdsOf(ev.structuralObjects, AnyObject))

\* At the undeclared tier an object that is held but not in view is listed
\* after a visible one of a smaller id, and a structural object that is
\* not in view is left out
C27_Witness ==
    /\ TierCall("wrap_output")
    /\ config.metadata_tier = ""
    /\ call.scene_event.objects =
          <<ObjectMetadataOf(2, FALSE, TRUE), ObjectMetadataOf(1, TRUE, TRUE)>>
    /\ Val(output.value).object_list = <<[uuid |-> 1], [uuid |-> 2]>>
    /\ Val(output.value).structural_object_list = <<[uuid |-> 5]>>

\* The keys of the metadata whose image a tier hides
TargetKeys == {"target", "target_1", "target_2"}

(* C28: the goal retrieve_goal builds at level1 and level2 has the image   *)
(* of target, target_1 and target_2, each when present, set to None; at    *)
(* oracle and at the undeclared tier the goal is as configured; no tier    *)
(* changes anything else of the goal.                                      *)
C28_GoalImagesByTier ==
    TierCall("retrieve_goal")
    => LET out == Val(output.value)
           configured == GoalMetadata(call.goal_config)
       IN  /\ config.metadata_tier \in {"", "oracle"} => out = configured
           /\ config.metadata_tier \in {"level1", "level2"}
              => /\ out.action_list = configured.action_list
                 /\ out.habituation_total = configured.habituation_total
                 /\ out.last_preview_phase_step
                        = configured.last_preview_phase_step
                 /\ out.last_step = configured.last_step
                 /\ DOMAIN out.metadata = DOMAIN configured.metadata
                 /\ \A k \in DOMAIN configured.metadata :
                       /\ DOMAIN out.metadata[k]
                              = DOMAIN configured.metadata[k]
                       /\ \A f \in DOMAIN configured.metadata[k] :
                             out.metadata[k][f] =
                                 IF k \in TargetKeys /\ f = "image"
                                 THEN None
                                 ELSE configured.metadata[k][f]

C28_Witness ==
    /\ TierCall("retrieve_goal")
    /\ config.metadata_tier = "level1"
    /\ DOMAIN call.goal_config.metadata = {"target", "distractor"}
    /\ call.goal_config.metadata.target =
          [id |-> "ball", image |-> Some("pixels")]
    /\ Val(output.value).metadata.target = [id |-> "ball", image |-> None]
    /\ Val(output.value).metadata.distractor =
          [id |-> "ball", image |-> Some("pixels")]

----------------------------------------------------------------------------
(* Habituation trials and action names *)

\* The engine calls of the current scene that sent EndHabituation: one for
\* each accepted EndHabituation step
EndHabituationSteps ==
    {i \in 1..Len(calls) : /\ calls[i].to = "engine"
                           /\ calls[i].scene = scene_count
                           /\ calls[i].payload.action = "EndHabituation"}

(* C29: at every point of a scene the habituation counter is 1 plus the    *)
(* number of accepted EndHabituation steps of that scene: start_scene      *)
(* makes it 1, an accepted EndHabituation step adds 1, and a rejected step *)
(* and every other action leave it as it is.                               *)
C29_HabituationTrialCounts ==
    scene_count > 0
    => habituation_trial = 1 + Cardinality(EndHabituationSteps)

\* After an accepted EndHabituation step, a second one was rejected
C29_Witness ==
    /\ scene_count > 0
    /\ call.op = "step"
    /\ call.action = "EndHabituation"
    /\ ~output.raised
    /\ IsNone(output.value)
    /\ Cardinality(EndHabituationSteps) = 1
    /\ habituation_trial = 2

\* The engine's name of an action, as the renames are documented
EngineName(action) ==
    CASE action = "CloseObject" -> "MCSCloseObject"
      [] action = "OpenObject" -> "MCSOpenObject"
      [] action = "DropObject" -> "DropHandObject"
      [] OTHER -> action

ActionNames == {ACTION_LIST[i] : i \in 1..Len(ACTION_LIST)}

(* C30: the action of the payload of a step is the name that was asked for *)
(* except for three renames, CloseObject to MCSCloseObject, OpenObject to  *)
(* MCSOpenObject and DropObject to DropHandObject, which send different    *)
(* actions to different names; the name that was asked for is the one that *)
(* is looked up in the action list and the one the parameters are          *)
(* validated for.                                                          *)
C30_RenamedAfterChecks ==
    /\ \A a, b \in ActionNames :
          mcs_action_to_ai2thor_action(a) = mcs_action_to_ai2thor_action(b)
          => a = b
    /\ (call.op = "step" /\ ~output.raised)
       => /\ call.action \in ActionNames
          /\ Val(output.value).action = EngineName(call.action)
          /\ Val(output.value).params =
                Val((IF config.variant = "Controller"
                     THEN validate_and_convert_params(config, call.action,
                              call.kwargs, call.noise)
                     ELSE AI2THOR_validate_and_convert_params(config,
                              call.action, call.kwargs, call.noise)).value)

C30_Witness ==
    /\ call.op = "step"
    /\ ~output.raised
    /\ config.variant = "Controller"
    /\ call.action = "DropObject"
    /\ Val(output.value).action = "DropHandObject"
    /\ Val(output.value).params.moveMagnitude = MOVE_DISTANCE

----------------------------------------------------------------------------
(* Snapshots *)

\* step(action) would pass both checks in the current state
WouldAccept(action) ==
    /\ ~(step_number > 0 /\ IsNone(history_writer))
    /\ ~LastStepReached(goal, step_number)
    /\ Permitted(goal, step_number, action)

\* The call changed neither the goal nor the step counter
SameGoalAndStep == goal' = goal /\ step_number' = step_number

(* C31: the action_list of every snapshot start_scene or an accepted step  *)
(* returns is the list of the actions permitted at the next step: it is    *)
(* the list the next step() looks its action up in, no call in between     *)
(* changes what that list is computed from, and a step is accepted only    *)
(* with an action of that list.                                            *)
C31_SnapshotListsNextActions ==
    [][/\ ReturnedSnapshot'
          => Val(output'.value).action_list
                 = retrieve_action_list(goal', step_number')
       /\ (call'.op = "step" /\ ~output'.raised /\ ~IsNone(output'.value))
          => InList(call'.action, retrieve_action_list(goal, step_number))
       /\ (call'.op = "step" /\ IsNone(output'.value)) => SameGoalAndStep
       /\ call'.op \in {"make_step_prediction", "end_scene"}
          => SameGoalAndStep]_vars

\* The second step of a scene with an action list was accepted with an
\* action that only the list of the first step's snapshot permits
C31_Witness ==
    /\ ReturnedSnapshot
    /\ call.op = "step"
    /\ call.action = "MoveAhead"
    /\ ~IsNone(goal.action_list)
    /\ goal.last_preview_phase_step = 0
    /\ step_number = 2
    /\ Val(output.value).action_list = ACTION_LIST

\* The number of the engine call whose output the last snapshot was built
\* from
LastEngineCall == EngineCalls(calls)

(* C32: when the pose or the last action status of the engine's output is  *)
(* no name of the enum, the snapshot has the pose, respectively the        *)
(* return_status, UNDEFINED; the step is not aborted: a step that passes   *)
(* the checks returns a snapshot and adds one to the step counter whatever *)
(* pose and status the engine reports.                                     *)
C32_UnknownEnumGivesUndefined ==
    [][/\ ReturnedSnapshot'
          => LET out == Val(output'.value)
                 k == EngineCalls(calls')
             IN  /\ EnginePose(k) \notin PoseNames
                    => out.pose = "UNDEFINED"
                 /\ EngineStatus(k) \notin ReturnStatusNames
                    => out.return_status = "UNDEFINED"
       /\ (call'.op = "step" /\ WouldAccept(call'.action))
          => /\ ~output'.raised
             /\ ~IsNone(output'.value)
             /\ step_number' = step_number + 1]_vars

C32_Witness ==
    /\ ReturnedSnapshot
    /\ call.op = "step"
    /\ step_number = 1
    /\ EnginePose(LastEngineCall) = "FLYING"
    /\ EngineStatus(LastEngineCall) = "TELEPORTED"
    /\ Val(output.value).pose = "UNDEFINED"
    /\ Val(output.value).return_status = "UNDEFINED"

----------------------------------------------------------------------------
(* Defaults *)

\* The value of a goal field is the configured one, or the default when
\* the key is missing
ConfiguredOr(g, goal_config, key, default) ==
    g[key] = IF key \in DOMAIN goal_config THEN goal_config[key] ELSE default

(* C33: retrieve_goal raises for no combination of missing goal fields,    *)
(* the goal of no field included, and gives a missing field its default:   *)
(* no action list, habituation_total 0, last_preview_phase_step 0, no      *)
(* last_step, empty category and description, empty metadata.              *)
C33_GoalDefaults ==
    call.op = "retrieve_goal"
    => /\ ~output.raised
       /\ LET g == Val(output.value)
              gc == call.goal_config
          IN  /\ ConfiguredOr(g, gc, "action_list", None)
              /\ ConfiguredOr(g, gc, "last_preview_phase_step", 0)
              /\ ConfiguredOr(g, gc, "last_step", None)
              /\ ConfiguredOr(g, gc, "category", "")
              /\ ConfiguredOr(g, gc, "description", "")
              /\ config.variant = "Controller"
                 => ConfiguredOr(g, gc, "habituation_total", 0)
              /\ "metadata" \notin DOMAIN gc => g.metadata = NoMetadata

\* The values of a StepMetadata that are lists
StepMetadataLists ==
    {"action_list", "depth_mask_list", "image_list", "object_list",
     "object_mask_list", "structural_object_list"}

(* C35: StepMetadata() has empty lists as action_list, depth_mask_list,    *)
(* image_list, object_list, object_mask_list and structural_object_list,   *)
(* a default GoalMetadata as goal, the pose and the return_status          *)
(* UNDEFINED, reward 0, step_number 0, head_tilt and rotation 0.0 and an   *)
(* empty dict as position.                                                 *)
C35_StepMetadataDefaults ==
    (call.op = "StepMetadata" /\ DOMAIN call.kwargs = {})
    => LET m == Val(output.value)
       IN  /\ \A key \in StepMetadataLists : m[key] = Some(<<>>)
           /\ m.goal = Some([action_list |-> None, category |-> "",
                             description |-> "", domain_list |-> <<>>,
                             info_list |-> <<>>,
                             last_preview_phase_step |-> 0,
                             last_step |-> None, type_list |-> <<>>,
                             metadata |-> NoMetadata])
           /\ m.pose = Some("UNDEFINED")
           /\ m.return_status = Some("UNDEFINED")
           /\ m.reward = Some(0)
           /\ m.step_number = Some(0)
           /\ m.head_tilt = Some(0)
           /\ m.rotation = Some(0)
           /\ m.position = Some(<<>>)

C35_Witness ==
    /\ call.op = "StepMetadata"
    /\ DOMAIN call.kwargs = {}
    /\ ~output.raised
    /\ Val(output.value).action_list = Some(<<>>)
    /\ Val(output.value).pose = Some("UNDEFINED")
    /\ ~IsNone(Val(output.value).goal)

\* The three buffer lists of a snapshot
Buffers == {"depth_data_list", "image_list", "object_mask_list"}

(* C34: the history record of an accepted step holds the snapshot of the   *)
(* step without image_list, depth_data_list and object_mask_list, every    *)
(* other field as in the snapshot, and the snapshot the same step()        *)
(* returns still has the three lists as wrap_output built them.            *)
C34_RecordWithoutBuffers ==
    (call.op = "step" /\ ReturnedSnapshot)
    => LET out == Val(output.value)
           recorded == Val(history_item).output
           bufs == save_images(config,
                               Frames(engine_frames, LastEngineCall))
       IN  /\ DOMAIN recorded = DOMAIN out \ Buffers
           /\ \A k \in DOMAIN recorded : recorded[k] = out[k]
           /\ Buffers \subseteq DOMAIN out
           /\ out.image_list = bufs.image_list
           /\ out.depth_data_list = bufs.depth_data_list
           /\ out.object_mask_list =
                 IF config.metadata_tier = "level1" THEN <<>>
                 ELSE bufs.object_mask_list

C34_Witness ==
    /\ call.op = "step"
    /\ ReturnedSnapshot
    /\ config.metadata_tier = ""
    /\ Len(Val(output.value).image_list) = MaxFrames
    /\ Len(Val(output.value).object_mask_list) = MaxFrames
    /\ Val(history_item).step = step_number
    /\ "image_list" \notin DOMAIN Val(history_item).output
    /\ Val(history_item).output.step_number = step_number

----------------------------------------------------------------------------
(* The step budget and the preview phase *)

\* The steps of the current scene that reached the engine: the accepted
\* steps, those of the preview phase included
AcceptedInScene ==
    Cardinality({i \in 1..Len(calls) : /\ calls[i].to = "engine"
                                       /\ calls[i].scene = scene_count
                                       /\ calls[i].step > 0})

(* C36: in a scene whose goal has last_step = L >= 1 the step() that       *)
(* brings the step counter to L is executed and returns a snapshot, and    *)
(* the step() after it is the first to be rejected for the budget; the     *)
(* accepted steps of the scene, those of the preview phase included, are   *)
(* as many as the step counter says and never more than L.                 *)
C36_ExactlyLastStepSteps ==
    [][/\ (scene_count' > 0 /\ ~IsNone(goal'.last_step))
          => /\ AcceptedInScene' = step_number'
             /\ step_number' <= Val(goal'.last_step)
       /\ (call'.op = "step" /\ scene_count > 0 /\ ~IsNone(goal.last_step))
          => LET L == Val(goal.last_step)
             IN  /\ ~output'.raised
                 /\ step_number = L
                    => IsNone(output'.value) /\ step_number' = L
                 /\ (step_number = L - 1
                     /\ Permitted(goal, step_number, call'.action))
                    => ~IsNone(output'.value) /\ step_number' = L]_vars

\* The step that brought the counter to last_step = 2 returned a snapshot,
\* after one step of the preview phase
C36_Witness ==
    /\ call.op = "step"
    /\ ReturnedSnapshot
    /\ goal.last_step = Some(2)
    /\ goal.last_preview_phase_step = 1
    /\ ~SkipPreviewPhase(Val(scene_configuration))
    /\ step_number = 2
    /\ AcceptedInScene = 2

(* C37: start_scene returns a snapshot and does not raise, whatever the    *)
(* goal, also when last_step is smaller than last_preview_phase_step and   *)
(* the budget runs out during the steps of the preview phase.              *)
C37_StartSceneAlwaysReturns ==
    call.op = "start_scene" => ReturnedSnapshot

(* C38: a goal whose skip_preview_phase is present and false gets the      *)
(* Pass steps of its preview phase like a goal without the key: after      *)
(* start_scene the step counter is last_preview_phase_step unless the key  *)
(* is present and true.                                                    *)
C38_PreviewSkippedOnlyWhenTrue ==
    (call.op = "start_scene" /\ ~output.raised)
    => step_number =
          IF call.config_data.skip_preview_phase = "true"
          THEN 0
          ELSE call.config_data.last_preview_phase_step

----------------------------------------------------------------------------
(* The force of an action *)

\* The maximum force the Controller class declares first (line 96)
DeclaredMaxForce == 50 * Unit

\* The validated force of the call that was made
ForceOfCall == Validated(config.is_in_range, call.action, call.kwargs).force

(* C40: for ThrowObject, PushObject and PullObject the move magnitude      *)
(* before noise is the validated force times the maximum force 50.0, in    *)
(* both controller classes, so it lies in [0, 50].                         *)
C40_ForceTimesFifty ==
    (/\ call.op = "validate_and_convert_params"
     /\ InList(call.action, FORCE_ACTIONS)
     /\ ~config.enable_noise
     /\ ~output.raised)
    => /\ Val(output.value).moveMagnitude = Mul(ForceOfCall, DeclaredMaxForce)
       /\ Val(output.value).moveMagnitude \in 0..DeclaredMaxForce

----------------------------------------------------------------------------
(* Noise and the seed *)

(* C39: two controllers created with the same integer seed, 0 included,    *)
(* and noise enabled give the same validated payload at every step of the  *)
(* same sequence of calls; with noise disabled the payload is the one the  *)
(* action and the raw parameters determine.                                *)
C39_SameSeedSamePayloads ==
    call.op = "validate_and_convert_params"
    => /\ (config.enable_noise /\ ~IsNone(config.seed))
          => output.value[1] = output.value[2]
       /\ ~config.enable_noise
          => \A r \in Runs :
                output.value[r] =
                   (IF config.variant = "Controller"
                    THEN validate_and_convert_params(config, call.action,
                                                     call.kwargs, NoNoise)
                    ELSE AI2THOR_validate_and_convert_params(config,
                             call.action, call.kwargs, NoNoise)).value

====
